---- MODULE Spec2Model ----
(***************************************************************************)
(* Model of the geospatial-temporal cleaning and merge code of the         *)
(* repository: clean_and_merge_data (Data-Cleaning notebook) and the taxi  *)
(* sanitizer TransportationETL._clean_taxi_data.                           *)
(*                                                                         *)
(* A table is [cols, rows, geom, crs]: cols is the sequence of column      *)
(* names, rows a sequence of [idx, val] (idx the pandas index label, val   *)
(* the cell values, positionally aligned with cols), geom says whether the *)
(* frame has an active geometry column, crs is its CRS ("none" = unset).   *)
(* Coordinates in EPSG:4326 are integers in 1e-4 degree; coordinates in    *)
(* EPSG:3857 are integers in metres. Timestamps are minutes since          *)
(* 2024-01-01 00:00 (wall clock for tz-naive values, UTC for tz-aware).    *)
(***************************************************************************)
EXTENDS Integers, Sequences, FiniteSets, TLC

\* ------------------------------------------------------------------ bounds
MaxRows == 2
MaxTables == 3

\* ------------------------------------------------------------ cell values
NaN == [k |-> "nan"]                      \* None / NaN / NaT
Num(n) == [k |-> "num", v |-> n]
Str(s) == [k |-> "str", v |-> s]          \* text that parses to nothing
Naive(t) == [k |-> "naive", t |-> t]      \* tz-naive timestamp (or its string)
Aware(t, off) == [k |-> "aware", t |-> t, off |-> off]
\* a point x / u, y / u: u = 10000 for 1e-4 degree, u = 1 for metres
Pt(x, y) == [k |-> "pt", x |-> x, y |-> y, u |-> 10000]
PtM(x, y) == [k |-> "pt", x |-> x, y |-> y, u |-> 1]

IsNull(v) == v.k = "nan"

\* --------------------------------------------------------------- sequences
RECURSIVE SeqMap(_, _)
SeqMap(F(_), s) == IF s = <<>> THEN <<>> ELSE <<F(Head(s))>> \o SeqMap(F, Tail(s))

RECURSIVE Flatten(_)
Flatten(ss) == IF ss = <<>> THEN <<>> ELSE Head(ss) \o Flatten(Tail(ss))

Range(s) == {s[p] : p \in DOMAIN s}

SeqsUpTo(S, n) == UNION {[1..m -> S] : m \in 0..n}

\* ----------------------------------------------------------------- tables
HasCol(cols, c) == \E p \in DOMAIN cols : cols[p] = c

\* df[c] with c a label: the first column of that name
ColPos(cols, c) == CHOOSE p \in DOMAIN cols : cols[p] = c /\ \A q \in 1..(p - 1) : cols[q] # c

Cell(t, r, c) == r.val[ColPos(t.cols, c)]

Frame(cols, rows) == [cols |-> cols, rows |-> rows, geom |-> FALSE, crs |-> "none"]

\* rows numbered 0..n-1, the default RangeIndex
Indexed(vals) == [p \in DOMAIN vals |-> [idx |-> p - 1, val |-> vals[p]]]

\* df.dropna(subset=cs): rows with a missing value in any of the columns cs go
DropNa(t, cs) ==
    [t EXCEPT !.rows = SelectSeq(t.rows, LAMBDA r : \A c \in cs : ~IsNull(Cell(t, r, c)))]

\* df[c] = f(row) for every row; a new column is appended on the right
SetCol(t, c, F(_)) ==
    IF HasCol(t.cols, c)
    THEN [t EXCEPT !.rows = SeqMap(LAMBDA r : [r EXCEPT !.val[ColPos(t.cols, c)] = F(r)], t.rows)]
    ELSE [t EXCEPT !.cols = t.cols \o <<c>>,
                   !.rows = SeqMap(LAMBDA r : [r EXCEPT !.val = r.val \o <<F(r)>>], t.rows)]

\* A result of a step that may raise: the table, or the exception's name
Ok(t) == [ok |-> TRUE, t |-> t, err |-> "none"]
Raise(e) == [ok |-> FALSE, t |-> Frame(<<>>, <<>>), err |-> e]

\* ------------------------------------------------------ geometry (28-39)
\* The column names of the model, and the substring tests of lines 29-30
\* evaluated on them.
ColumnNames ==
    {"lat", "lon", "Latitude", "lng", "relationship", "geometry", "pickup_datetime",
     "dropoff_datetime", "fare", "fare_dup", "passenger_count", "trip_distance",
     "fare_amount"}

\* 'lat' in c.lower()
LatLike(c) == c \in {"lat", "Latitude", "relationship"}
\* 'lon' in c.lower() or 'lng' in c.lower()
LonLike(c) == c \in {"lon", "lng"}

\* the coordinates taken the other way round
MakePointSwapped(lonv, latv) == Pt(latv.v, lonv.v)

\* Point(xy) for xy in zip(df[lon], df[lat]): x is the longitude, y the latitude
MakePoint(lonv, latv) == Pt(lonv.v, latv.v)

\* Lines 28-39: the GeoDataFrame built from df
ResolveGeometry(df) ==
    IF ~HasCol(df.cols, "geometry")
    THEN LET lat_cols == SelectSeq(df.cols, LatLike)
             lon_cols == SelectSeq(df.cols, LonLike)
         IN IF lat_cols # <<>> /\ lon_cols # <<>>
            THEN LET lat == lat_cols[1]
                     lon == lon_cols[1]
                     d == DropNa(df, {lat, lon})
                 IN IF \E p \in DOMAIN d.rows :
                          Cell(d, d.rows[p], lat).k # "num" \/ Cell(d, d.rows[p], lon).k # "num"
                    THEN Raise("TypeError")
                    ELSE Ok([SetCol(d, "geometry",
                                    LAMBDA r : MakePoint(Cell(d, r, lon), Cell(d, r, lat)))
                                EXCEPT !.geom = TRUE, !.crs = "EPSG:4326"])
            ELSE Ok(df)
    ELSE Ok([df EXCEPT !.geom = TRUE])

\* ----------------------------------------------------------- CRS (41-48)
ValidCrs(c) == c \in {"EPSG:4326", "EPSG:3857"}

\* Web Mercator from 1e-4 degree to metres and back: x exactly linear
\* (111319.49 m per degree), y linearised around latitude 40.75.
MercX(x) == x * 11 + x \div 8 + x \div 144
MercY(y) == 4975536 + ((y - 407500) * 14694) \div 1000
InvMercX(m) == m \div 11 - m \div 928
InvMercY(m) == 407500 + ((m - 4975536) * 1000) \div 14694

\* A point whose coordinates are infinite: what pyproj returns for an input
\* outside the projection's domain (a latitude beyond 90 degrees)
PtInf == [k |-> "ptinf"]

\* One geometry of gdf.to_crs: the numbers are read in the source CRS's unit
\* whatever they were meant to be. Metres read near the equator map to
\* degrees at 111319 m per degree.
Reproject(v, from, to) ==
    IF v.k # "pt" \/ from = to THEN v
    ELSE IF to = "EPSG:3857"
         THEN IF v.u = 10000 THEN PtM(MercX(v.x), MercY(v.y)) ELSE PtInf
    ELSE IF v.u = 1 THEN Pt(InvMercX(v.x), InvMercY(v.y))
    ELSE Pt(InvMercX(v.x \div 10000), ((v.y \div 10000) * 10) \div 111)

\* gdf.to_crs(crs_target): raises on a CRS pyproj does not know
ToCrs(g, target) ==
    IF ~ValidCrs(target) \/ ~ValidCrs(g.crs) THEN Raise("CRSError")
    ELSE Ok([SetCol(g, "geometry", LAMBDA r : Reproject(Cell(g, r, "geometry"), g.crs, target))
                EXCEPT !.crs = target])

\* Lines 42-48. A frame without an active geometry column has no CRS to read
\* or set: gdf.crs / gdf.set_crs raise AttributeError there.
NormalizeCrs(g, target) ==
    IF ~g.geom THEN Raise("AttributeError")
    ELSE IF g.crs = "none" /\ ~ValidCrs(target) THEN Raise("CRSError")
    ELSE LET g1 == IF g.crs = "none" THEN [g EXCEPT !.crs = target] ELSE g
         IN IF g1.crs # target
            THEN LET r == ToCrs(g1, target) IN IF r.ok THEN r ELSE Ok(g1)
            ELSE Ok(g1)

\* ------------------------------------------------- bounding box (50-54)
NYC_LAT_MIN == 404774
NYC_LAT_MAX == 409176
NYC_LON_MIN == -742591
NYC_LON_MAX == -737004

\* v / u >= b / 10000 and v / u <= b / 10000, for u = 10000 or u = 1
GeBound(v, u, b) == IF u = 10000 THEN v >= b ELSE v >= (b + 9999) \div 10000
LeBound(v, u, b) == IF u = 10000 THEN v <= b ELSE v <= b \div 10000

\* InBox with the longitude test forgotten
InBoxLatOnly(g) ==
    /\ g.k = "pt"
    /\ GeBound(g.y, g.u, NYC_LAT_MIN) /\ LeBound(g.y, g.u, NYC_LAT_MAX)

InBox(g) ==
    /\ g.k = "pt"
    /\ GeBound(g.y, g.u, NYC_LAT_MIN) /\ LeBound(g.y, g.u, NYC_LAT_MAX)
    /\ GeBound(g.x, g.u, NYC_LON_MIN) /\ LeBound(g.x, g.u, NYC_LON_MAX)

\* Lines 51-54: a missing geometry has NaN coordinates and fails every test
BBoxFilter(g) ==
    [g EXCEPT !.rows = SelectSeq(g.rows, LAMBDA r : InBox(Cell(g, r, "geometry")))]

\* ------------------------------------------------------ timestamps (56-66)
\* America/New_York in 2024, in minutes: UTC offsets, and the wall-clock
\* minutes (since 2024-01-01 00:00) of the two transitions.
NYC_STD == -300
NYC_DST == -240
\* 2024-03-10 02:00 wall clock: 02:00-02:59 does not exist
DST_START_LOCAL == 99480
\* 2024-11-03 02:00 wall clock (EDT): 01:00-01:59 occurs twice
DST_END_LOCAL == 442200

\* pd.to_datetime(v, errors='coerce') on one cell
ToDatetime(v) ==
    CASE v.k = "nan" -> NaN
      [] v.k = "str" -> NaN
      [] v.k = "naive" -> v
      [] v.k = "aware" -> v

\* The dtype of the parsed column: tz-naive datetime64, tz-aware datetime64,
\* or - with naive and aware values mixed, or two different offsets - no
\* datetime column at all (to_datetime raises or leaves an object column on
\* which .dt raises, depending on the pandas version).
ColumnTz(vals) ==
    LET offs == {v.off : v \in {w \in vals : w.k = "aware"}}
        naive == \E v \in vals : v.k = "naive"
    IN IF offs = {} THEN "naive"
       ELSE IF naive \/ Cardinality(offs) > 1 THEN "object"
       ELSE "aware"

\* tz_localize that takes the wall-clock time for UTC
TzLocalizeAsUtc(v) == IF v.k # "naive" THEN NaN ELSE Aware(v.t, 0)

\* tz_localize that guesses: the first of two occurrences, and a time in the
\* spring-forward gap read as standard time
TzLocalizeGuess(v) ==
    IF v.k # "naive" THEN NaN
    ELSE IF v.t >= DST_START_LOCAL + 60 /\ v.t < DST_END_LOCAL
         THEN Aware(v.t - NYC_DST, NYC_DST)
    ELSE Aware(v.t - NYC_STD, NYC_STD)

\* .dt.tz_localize(nyc, ambiguous='NaT', nonexistent='NaT') on one cell
TzLocalize(v) ==
    IF v.k # "naive" THEN NaN
    ELSE IF v.t >= DST_START_LOCAL /\ v.t < DST_START_LOCAL + 60 THEN NaN
    ELSE IF v.t >= DST_END_LOCAL - 60 /\ v.t < DST_END_LOCAL THEN NaN
    ELSE IF v.t >= DST_START_LOCAL + 60 /\ v.t < DST_END_LOCAL - 60
         THEN Aware(v.t - NYC_DST, NYC_DST)
    ELSE Aware(v.t - NYC_STD, NYC_STD)

\* a conversion that moves the instant: the New York summer offset is added
\* whatever zone the value is in
TzConvertShift(v) == IF v.k = "aware" THEN Aware(v.t + 240, 0) ELSE NaN

\* tz_convert forgotten: the value keeps the offset it was localized with
TzConvertKeep(v) == v

\* .dt.tz_convert('UTC') on one cell: the instant is kept, the offset becomes 0
TzConvertUTC(v) == IF v.k = "aware" THEN Aware(v.t, 0) ELSE NaN

\* Line 59: the column parsed
ParseCol(g, c) == SetCol(g, c, LAMBDA r : ToDatetime(Cell(g, r, c)))

\* Line 61: gdf[time_col].dt.tz, as "naive", "aware" or "object"
TimeColTz(g, c) ==
    LET parsed == ParseCol(g, c)
    IN ColumnTz({Cell(parsed, parsed.rows[p], c) : p \in DOMAIN parsed.rows})

\* The dropna of line 66 forgotten
NormalizeTimeColNoDrop(g, c) ==
    LET parsed == ParseCol(g, c)
        tz == TimeColTz(g, c)
    IN IF tz = "object" THEN Raise("AttributeError")
       ELSE Ok(SetCol(parsed, c,
                      LAMBDA r : IF tz = "naive"
                                 THEN TzConvertUTC(TzLocalize(Cell(parsed, r, c)))
                                 ELSE TzConvertUTC(Cell(parsed, r, c))))

\* Lines 59-66 for one time column present in gdf
NormalizeTimeCol(g, c) ==
    LET parsed == ParseCol(g, c)
        tz == TimeColTz(g, c)
    IN IF tz = "object" THEN Raise("AttributeError")
       ELSE LET conv == SetCol(parsed, c,
                               LAMBDA r : IF tz = "naive"
                                          THEN TzConvertUTC(TzLocalize(Cell(parsed, r, c)))
                                          ELSE TzConvertUTC(Cell(parsed, r, c)))
            IN Ok(DropNa(conv, {c}))

\* ----------------------------------------------------------- merge (70-84)
\* merge_cols as every column shared by all cleaned frames
MergeColsAllShared(tcols, cleaned) ==
    IF cleaned = <<>> THEN tcols \o <<"geometry">>
    ELSE SelectSeq(cleaned[1].cols,
                   LAMBDA c : \A p \in DOMAIN cleaned : HasCol(cleaned[p].cols, c))

\* merge_cols without the geometry key
MergeColsTimeOnly(tcols, cleaned) ==
    SelectSeq(tcols, LAMBDA c : \A p \in DOMAIN cleaned : HasCol(cleaned[p].cols, c))

\* Lines 71-73
MergeCols(tcols, cleaned) ==
    SelectSeq(tcols, LAMBDA c : \A p \in DOMAIN cleaned : HasCol(cleaned[p].cols, c))
        \o (IF \A p \in DOMAIN cleaned : HasCol(cleaned[p].cols, "geometry")
            THEN <<"geometry">> ELSE <<>>)

\* The positions of the right frame's columns that are not join keys
NonKeyPos(right, on) ==
    SelectSeq([p \in DOMAIN right.cols |-> p], LAMBDA p : right.cols[p] \notin Range(on))

\* The suffix forgotten: a colliding right column keeps its name
RightLabelsNoSuffix(left, right, on) ==
    LET rpos == NonKeyPos(right, on)
    IN [q \in DOMAIN rpos |-> right.cols[rpos[q]]]

\* suffixes that count: '_dup' for the first collision of a name, '_dup2'
\* once the accumulated frame already has the '_dup' column
RightLabelsNumbered(left, right, on) ==
    LET rpos == NonKeyPos(right, on)
    IN [q \in DOMAIN rpos |->
           IF HasCol(left.cols, right.cols[rpos[q]])
           THEN IF HasCol(left.cols, right.cols[rpos[q]] \o "_dup")
                THEN right.cols[rpos[q]] \o "_dup2" ELSE right.cols[rpos[q]] \o "_dup"
           ELSE right.cols[rpos[q]]]

\* suffixes=(None, '_dup'): a right column whose name is also a left column
\* gets the suffix, the left column keeps its name
RightLabels(left, right, on) ==
    LET rpos == NonKeyPos(right, on)
    IN [q \in DOMAIN rpos |->
           IF HasCol(left.cols, right.cols[rpos[q]])
           THEN right.cols[rpos[q]] \o "_dup" ELSE right.cols[rpos[q]]]

\* The suffix made two right columns share a name: pandas >= 2.0 raises
\* MergeError, earlier versions warn and keep both.
SuffixClash(left, right, on) ==
    LET lab == RightLabels(left, right, on)
        rpos == NonKeyPos(right, on)
    IN \E a, b \in DOMAIN lab :
          a # b /\ lab[a] = lab[b] /\ right.cols[rpos[a]] # right.cols[rpos[b]]

\* the merge as a left join: a left row without a partner is kept, padded
JoinLeft(left, right, on) ==
    LET rpos == NonKeyPos(right, on)
        match(l, r) == \A c \in Range(on) : Cell(left, l, c) = Cell(right, r, c)
        rest(r) == [q \in DOMAIN rpos |-> r.val[rpos[q]]]
        pad == [q \in DOMAIN rpos |-> NaN]
        joined == Flatten(SeqMap(LAMBDA l :
                                    IF \E p \in DOMAIN right.rows : match(l, right.rows[p])
                                    THEN SeqMap(LAMBDA r : l.val \o rest(r),
                                                SelectSeq(right.rows, LAMBDA r : match(l, r)))
                                    ELSE <<l.val \o pad>>,
                                 left.rows))
    IN [cols |-> left.cols \o RightLabels(left, right, on), rows |-> Indexed(joined),
        geom |-> left.geom, crs |-> left.crs]

\* left.merge(right, on=on, how='inner', suffixes=(None, '_dup'))
Join(left, right, on) ==
    LET rpos == NonKeyPos(right, on)
        match(l, r) == \A c \in Range(on) : Cell(left, l, c) = Cell(right, r, c)
        rest(r) == [q \in DOMAIN rpos |-> r.val[rpos[q]]]
        joined == Flatten(SeqMap(LAMBDA l : SeqMap(LAMBDA r : l.val \o rest(r),
                                                   SelectSeq(right.rows, LAMBDA r : match(l, r))),
                                 left.rows))
    IN [cols |-> left.cols \o RightLabels(left, right, on), rows |-> Indexed(joined),
        geom |-> left.geom, crs |-> left.crs]

\* The column labels of pd.concat: the union, in order of first appearance
RECURSIVE UnionCols(_)
UnionCols(ts) ==
    IF ts = <<>> THEN <<>>
    ELSE LET rest == UnionCols(Tail(ts))
         IN Head(ts).cols \o SelectSeq(rest, LAMBDA c : ~HasCol(Head(ts).cols, c))

\* pd.concat(cleaned_dfs, ignore_index=True)
Concat(ts) ==
    LET cols == UnionCols(ts)
        widen(t) == SeqMap(LAMBDA r : [q \in DOMAIN cols |->
                                          IF HasCol(t.cols, cols[q]) THEN Cell(t, r, cols[q])
                                          ELSE NaN],
                           t.rows)
    IN [cols |-> cols, rows |-> Indexed(Flatten(SeqMap(widen, ts))),
        geom |-> ts[1].geom, crs |-> ts[1].crs]

\* ----------------------------------------------------------------- inputs
\* Three families of calls clean_and_merge_data(dfs, crs_target, time_cols):
\* one table with varying coordinates and CRS, one table with varying
\* timestamps, and lists of up to MaxTables tables with varying columns.
InsideLat == 407500
InsideLon == -739800

\* (lat, lon) cells: inside, the two inclusive corners, just outside in
\* latitude, just outside in longitude, the point (41.5, -73.9), no latitude
LatLonPool ==
    {<<Num(InsideLat), Num(InsideLon)>>, <<Num(NYC_LAT_MIN), Num(NYC_LON_MIN)>>,
     <<Num(NYC_LAT_MAX), Num(NYC_LON_MAX)>>, <<Num(NYC_LAT_MAX + 1), Num(InsideLon)>>,
     <<Num(InsideLat), Num(NYC_LON_MIN - 1)>>, <<Num(415000), Num(-739000)>>,
     <<NaN, Num(InsideLon)>>}

GeomPool ==
    {Pt(InsideLon, InsideLat), Pt(-739000, 415000), NaN,
     PtM(MercX(InsideLon), MercY(InsideLat)), PtM(MercX(-739000), MercY(415000))}

\* 2024-06-01 08:00 (EDT), 2024-11-03 01:30 (occurs twice), 2024-03-10 02:30
\* (does not exist), 2024-01-15 12:00 (EST), 2024-06-01T12:00Z written with the
\* offsets -04:00 and +00:00, unparseable text, missing
PickupPool ==
    {Naive(219360), Naive(442170), Naive(99510), Naive(20880), Aware(219600, -240),
     Aware(219600, 0), Str("n/a"), NaN}

DropoffPool == {Naive(219390), Aware(219630, -240), NaN}

\* Tables with several latitude-like and longitude-like columns: the first
\* pair holds a point inside the box (or a missing value), the second pair
\* the point (41.5, -73.9) (or a missing value)
DiscoveryPool ==
    {<<Num(InsideLat), Num(415000), Num(InsideLon), Num(-739000)>>,
     <<NaN, Num(InsideLat), Num(InsideLon), Num(InsideLon)>>,
     <<Num(InsideLat), NaN, Num(InsideLon), NaN>>,
     <<Num(NYC_LAT_MIN), Num(InsideLat), NaN, Num(InsideLon)>>}

DiscoveryTables ==
    {Frame(<<"Latitude", "relationship", "lng", "lon">>, Indexed(vals)) :
        vals \in SeqsUpTo(DiscoveryPool, MaxRows)}
    \cup {Frame(<<"relationship", "Latitude", "fare", "lon">>, Indexed(vals)) :
            vals \in SeqsUpTo(DiscoveryPool, 1)}

\* A table of taxi trips with coordinates: a plausible trip, and a trip with
\* no passenger and no distance
TaxiTripsTable ==
    Frame(<<"lat", "lon", "pickup_datetime", "passenger_count", "trip_distance", "fare_amount">>,
          Indexed(<<<<Num(InsideLat), Num(InsideLon), Naive(219360), Num(1), Num(250), Num(1500)>>,
                    <<Num(InsideLat), Num(InsideLon), Naive(219360), Num(0), Num(0), Num(1500)>>>>))

GeoTables ==
    {Frame(<<"lat", "lon">>, Indexed(vals)) : vals \in SeqsUpTo(LatLonPool, MaxRows)}
    \cup {[cols |-> <<"geometry", "fare">>, rows |-> Indexed(vals), geom |-> gc[1], crs |-> gc[2]] :
            vals \in SeqsUpTo({<<g, Num(10)>> : g \in {h \in GeomPool : h.k = "pt" => h.u = 10000}},
                              MaxRows),
            gc \in {<<FALSE, "none">>, <<TRUE, "EPSG:4326">>}}
    \cup {[cols |-> <<"geometry", "fare">>, rows |-> Indexed(vals), geom |-> TRUE,
           crs |-> "EPSG:3857"] :
            vals \in SeqsUpTo({<<g, Num(10)>> : g \in {h \in GeomPool : h.k = "pt" => h.u = 1}},
                              MaxRows)}
    \cup {Frame(<<"fare">>, Indexed(vals)) : vals \in SeqsUpTo({<<Num(10)>>}, MaxRows)}
    \cup DiscoveryTables
    \cup {TaxiTripsTable}

TimeTables ==
    {Frame(<<"lat", "lon", "pickup_datetime", "dropoff_datetime">>, Indexed(vals)) :
        vals \in SeqsUpTo({<<Num(InsideLat), Num(InsideLon), p, d>> :
                              p \in PickupPool, d \in DropoffPool}, MaxRows)}

P1 == <<Num(InsideLat), Num(InsideLon)>>
P2 == <<Num(NYC_LAT_MIN), Num(NYC_LON_MIN)>>

MergeTables ==
    {Frame(<<"lat", "lon", "pickup_datetime", "fare">>,
           Indexed(<<P1 \o <<Naive(219360), Num(10)>>, P2 \o <<Naive(219360), Num(20)>>>>)),
     Frame(<<"lat", "lon", "pickup_datetime", "fare">>,
           Indexed(<<P1 \o <<Aware(219600, -240), Num(30)>>>>)),
     Frame(<<"lat", "lon", "fare">>, Indexed(<<P1 \o <<Num(40)>>, P1 \o <<Num(50)>>>>)),
     Frame(<<"lat", "lon", "fare", "fare_dup">>, Indexed(<<P1 \o <<Num(60), Num(70)>>>>)),
     Frame(<<"fare">>, Indexed(<<<<Num(80)>>>>)),
     [cols |-> <<"geometry", "dropoff_datetime">>,
      rows |-> Indexed(<<<<Pt(InsideLon, InsideLat), Naive(219390)>>>>),
      geom |-> TRUE, crs |-> "EPSG:4326"],
     Frame(<<"lat", "lon", "pickup_datetime">>, <<>>),
     Frame(<<"lat", "lon", "pickup_datetime", "fare">>,
           Indexed(<<<<Num(415000), Num(-739000), Naive(219360), Num(90)>>>>))}

Call(d, c, t) == [dfs |-> d, crs_target |-> c, time_cols |-> t]

Inputs ==
    {Call(<<t>>, c, tc) : t \in GeoTables, c \in {"EPSG:4326", "EPSG:3857", "EPSG:0"},
                          tc \in {<<>>, <<"pickup_datetime">>}}
    \cup {Call(<<t>>, "EPSG:4326", tc) :
            t \in TimeTables,
            tc \in {<<"pickup_datetime", "dropoff_datetime">>,
                    <<"dropoff_datetime", "pickup_datetime">>, <<"pickup_datetime">>}}
    \cup {Call(d, "EPSG:4326", tc) :
            d \in SeqsUpTo(MergeTables, MaxTables),
            tc \in {<<>>, <<"pickup_datetime">>, <<"pickup_datetime", "dropoff_datetime">>}}

\* ------------------------------------------------------------------ state
VARIABLES
    dfs, crs_target, time_cols,   \* the arguments of clean_and_merge_data
    pc,                           \* where the call is
    i,                            \* the for loop of line 26: dfs[i] is df
    gdf,                          \* the frame being cleaned
    j,                            \* the for loop of line 57: time_cols[j]
    cleaned_dfs, merge_cols,
    k,                            \* the for loop of line 78: cleaned_dfs[k]
    merged,
    err,                          \* the exception that ended the call
    tlog,                         \* per normalised time column: rows in, rows out
    round,                        \* 1, or 2 when the call is on its own output
    first_out,                    \* what the first call returned
    targ,                         \* _clean_taxi_data: the frame as it was passed
    tin,                          \* the caller's frame object, as it is now
    tdf,                          \* the local variable df
    tsame,                        \* df is still the caller's object
    tpc, terr,
    barg,                         \* _clean_bikeshare_data: the frame as it was passed
    bdf,                          \* the local variable df
    bpc, berr,
    taxi_data,                    \* process_taxi_data: the dict being built
    fsrc,                         \* the try block it is in: 1 yellow, 2 green, 3 fhv
    fpc,
    flog,                         \* what has happened to each source so far
    subway_df,                    \* process_subway_data: the local of that name
    stbl,                         \* position of table_name in subway_tables
    structure,                    \* the column names of the structure looked up
    spc,
    slog                          \* what has happened to each table so far

mvars == <<dfs, crs_target, time_cols, pc, i, gdf, j, cleaned_dfs, merge_cols, k, merged,
           err, tlog, round, first_out>>
tvars == <<targ, tin, tdf, tsame, tpc, terr>>
bvars == <<barg, bdf, bpc, berr>>
fvars == <<taxi_data, fsrc, fpc, flog>>
svars == <<subway_df, stbl, structure, spc, slog>>
xvars == <<bvars, fvars, svars>>
vars == <<mvars, tvars, xvars>>

NoFrame == Frame(<<>>, <<>>)

\* No call of _clean_taxi_data is under way
TaxiIdle ==
    /\ targ = NoFrame /\ tin = NoFrame /\ tdf = NoFrame
    /\ tsame = TRUE /\ tpc = "idle" /\ terr = "none"

\* No call of _clean_bikeshare_data is under way
BikeIdle == barg = NoFrame /\ bdf = NoFrame /\ bpc = "idle" /\ berr = "none"

\* None of the ETL's other functions is running
\* No call of process_taxi_data is under way
FleetIdle == taxi_data = <<>> /\ fsrc = 1 /\ fpc = "idle" /\ flog = <<>>

\* No call of process_subway_data is under way
SubwayIdle ==
    subway_df = NoFrame /\ stbl = 1 /\ structure = <<>> /\ spc = "idle" /\ slog = <<>>

EtlIdle == BikeIdle /\ FleetIdle /\ SubwayIdle

Init ==
    /\ TaxiIdle
    /\ EtlIdle
    /\ \E c \in Inputs :
          /\ dfs = c.dfs
          /\ crs_target = c.crs_target
          /\ time_cols = c.time_cols
    /\ pc = IF dfs = <<>> THEN "keys" ELSE "geom"
    /\ i = 1
    /\ j = 1
    /\ k = 1
    /\ gdf = NoFrame
    /\ cleaned_dfs = <<>>
    /\ merge_cols = <<>>
    /\ merged = NoFrame
    /\ err = "none"
    /\ tlog = <<>>
    /\ round = 1
    /\ first_out = NoFrame

\* r is Ok(t) or Raise(e): go on with t at pc = next, or end the call
Advance(r, next) ==
    IF r.ok THEN gdf' = r.t /\ pc' = next /\ err' = err
    ELSE gdf' = gdf /\ pc' = "raised" /\ err' = r.err

RowIds(t) == {t.rows[p].idx : p \in DOMAIN t.rows}

\* Lines 27-39
GeometryStep ==
    /\ pc = "geom"
    /\ Advance(ResolveGeometry(dfs[i]), "crs")
    /\ UNCHANGED <<dfs, crs_target, time_cols, i, j, cleaned_dfs, merge_cols, k, merged, tlog>>
    /\ UNCHANGED tvars
    /\ UNCHANGED <<round, first_out>>
    /\ UNCHANGED xvars

\* Lines 41-48
CrsStep ==
    /\ pc = "crs"
    /\ Advance(NormalizeCrs(gdf, crs_target), "bbox")
    /\ UNCHANGED <<dfs, crs_target, time_cols, i, j, cleaned_dfs, merge_cols, k, merged, tlog>>
    /\ UNCHANGED tvars
    /\ UNCHANGED <<round, first_out>>
    /\ UNCHANGED xvars

\* Lines 50-54
BBoxStep ==
    /\ pc = "bbox"
    /\ Advance(Ok(BBoxFilter(gdf)), "time")
    /\ UNCHANGED <<dfs, crs_target, time_cols, i, j, cleaned_dfs, merge_cols, k, merged, tlog>>
    /\ UNCHANGED tvars
    /\ UNCHANGED <<round, first_out>>
    /\ UNCHANGED xvars

\* Lines 57-66: one iteration of the loop over time_cols. A column that is no
\* datetime column ends the call: with ValueError from to_datetime or with
\* AttributeError from .dt, depending on the pandas version.
TimeStep ==
    /\ pc = "time"
    /\ j <= Len(time_cols)
    /\ j' = j + 1
    /\ IF HasCol(gdf.cols, time_cols[j])
       THEN LET r == NormalizeTimeCol(gdf, time_cols[j])
            IN /\ IF r.ok THEN gdf' = r.t /\ UNCHANGED <<pc, err>>
                  ELSE /\ gdf' = gdf /\ pc' = "raised"
                       /\ err' \in {"ValueError", "AttributeError"}
               /\ tlog' = Append(tlog, [i |-> i, c |-> time_cols[j],
                                        tz |-> TimeColTz(gdf, time_cols[j]),
                                        inn |-> RowIds(gdf), out |-> RowIds(r.t), ok |-> r.ok])
       ELSE UNCHANGED <<gdf, pc, err, tlog>>
    /\ UNCHANGED <<dfs, crs_target, time_cols, i, cleaned_dfs, merge_cols, k, merged>>
    /\ UNCHANGED tvars
    /\ UNCHANGED <<round, first_out>>
    /\ UNCHANGED xvars

\* Line 68, and the next df of line 26
AppendCleaned ==
    /\ pc = "time"
    /\ j > Len(time_cols)
    /\ cleaned_dfs' = Append(cleaned_dfs, gdf)
    /\ IF i < Len(dfs) THEN i' = i + 1 /\ j' = 1 /\ pc' = "geom"
       ELSE pc' = "keys" /\ UNCHANGED <<i, j>>
    /\ UNCHANGED <<dfs, crs_target, time_cols, gdf, merge_cols, k, merged, err, tlog>>
    /\ UNCHANGED tvars
    /\ UNCHANGED <<round, first_out>>
    /\ UNCHANGED xvars

\* Lines 70-77 and 80-82: the key set, then the first frame or the concatenation
SelectBranch ==
    /\ pc = "keys"
    /\ merge_cols' = MergeCols(time_cols, cleaned_dfs)
    /\ IF merge_cols' # <<>>
       THEN IF cleaned_dfs = <<>>
            THEN pc' = "raised" /\ err' = "IndexError" /\ UNCHANGED <<merged, k>>
            ELSE pc' = "join" /\ merged' = cleaned_dfs[1] /\ k' = 2 /\ UNCHANGED err
       ELSE IF cleaned_dfs = <<>>
            THEN pc' = "raised" /\ err' = "ValueError" /\ UNCHANGED <<merged, k>>
            ELSE pc' = "ret" /\ merged' = Concat(cleaned_dfs) /\ UNCHANGED <<err, k>>
    /\ UNCHANGED <<dfs, crs_target, time_cols, i, gdf, j, cleaned_dfs, tlog>>
    /\ UNCHANGED tvars
    /\ UNCHANGED <<round, first_out>>
    /\ UNCHANGED xvars

\* Lines 78-79: one join
JoinStep ==
    /\ pc = "join"
    /\ k <= Len(cleaned_dfs)
    /\ k' = k + 1
    /\ \/ merged' = Join(merged, cleaned_dfs[k], merge_cols) /\ UNCHANGED <<pc, err>>
       \/ /\ SuffixClash(merged, cleaned_dfs[k], merge_cols)
          /\ pc' = "raised" /\ err' = "MergeError" /\ UNCHANGED merged
    /\ UNCHANGED <<dfs, crs_target, time_cols, i, gdf, j, cleaned_dfs, merge_cols, tlog>>
    /\ UNCHANGED tvars
    /\ UNCHANGED <<round, first_out>>
    /\ UNCHANGED xvars

\* Line 84: gpd.GeoDataFrame(merged, geometry='geometry')
Return ==
    /\ IF pc = "join" THEN k > Len(cleaned_dfs) ELSE pc = "ret"
    /\ IF HasCol(merged.cols, "geometry")
       THEN pc' = "done" /\ merged' = [merged EXCEPT !.geom = TRUE] /\ UNCHANGED err
       ELSE pc' = "raised" /\ err' = "ValueError" /\ UNCHANGED merged
    /\ UNCHANGED <<dfs, crs_target, time_cols, i, gdf, j, cleaned_dfs, merge_cols, k, tlog>>
    /\ UNCHANGED tvars
    /\ UNCHANGED <<round, first_out>>
    /\ UNCHANGED xvars

Next ==
    \/ GeometryStep
    \/ CrsStep
    \/ BBoxStep
    \/ TimeStep
    \/ AppendCleaned
    \/ SelectBranch
    \/ JoinStep
    \/ Return

Spec == Init /\ [][Next]_vars

\* ------------------------------------------------- the call on its own output
\* clean_and_merge_data([out], crs_target, time_cols) with out the frame a
\* single-table call has just returned
Reapply ==
    /\ pc = "done" /\ round = 1 /\ Len(dfs) = 1
    /\ round' = 2
    /\ first_out' = merged
    /\ dfs' = <<merged>>
    /\ pc' = "geom"
    /\ i' = 1 /\ j' = 1 /\ k' = 1
    /\ gdf' = NoFrame /\ cleaned_dfs' = <<>> /\ merge_cols' = <<>> /\ merged' = NoFrame
    /\ tlog' = <<>>
    /\ UNCHANGED <<crs_target, time_cols, err>>
    /\ UNCHANGED tvars
    /\ UNCHANGED xvars

NextTwice ==
    \/ GeometryStep
    \/ CrsStep
    \/ BBoxStep
    \/ TimeStep
    \/ AppendCleaned
    \/ SelectBranch
    \/ JoinStep
    \/ Return
    \/ Reapply

SpecTwice == Init /\ [][NextTwice]_vars

\* =============================================== _clean_taxi_data (197-256)
\* Numeric cells are integers: passenger_count in persons, trip_distance in
\* 1/100 mile, fare_amount in cents. Timestamps are whole minutes since
\* 2024-01-01 00:00 (a Monday); trip_duration is in minutes.
PASSENGER_MAX == 10
TRIP_DISTANCE_MAX == 10000
FARE_MAX == 100000
TRIP_DURATION_MAX == 1440
SPEED_MAX == 100

\* pd.to_numeric(v, errors='coerce') on one cell
ToNumeric(v) == IF v.k = "num" THEN v ELSE NaN

\* a lower bound that lets the bound itself through
KeepGe(t, c, n) ==
    [t EXCEPT !.rows = SelectSeq(t.rows, LAMBDA r : Cell(t, r, c).k = "num" /\ Cell(t, r, c).v >= n)]

\* df[df[c] > n] and df[df[c] < n]: a missing value compares false
KeepGt(t, c, n) ==
    [t EXCEPT !.rows = SelectSeq(t.rows, LAMBDA r : Cell(t, r, c).k = "num" /\ Cell(t, r, c).v > n)]
KeepLt(t, c, n) ==
    [t EXCEPT !.rows = SelectSeq(t.rows, LAMBDA r : Cell(t, r, c).k = "num" /\ Cell(t, r, c).v < n)]
KeepLe(t, c, n) ==
    [t EXCEPT !.rows = SelectSeq(t.rows, LAMBDA r : Cell(t, r, c).k = "num" /\ Cell(t, r, c).v <= n)]

\* Lines 203-206
RECURSIVE CoerceNumeric(_, _)
CoerceNumeric(t, cs) ==
    IF cs = <<>> THEN t
    ELSE LET u == IF HasCol(t.cols, Head(cs))
                  THEN SetCol(t, Head(cs), LAMBDA r : ToNumeric(Cell(t, r, Head(cs))))
                  ELSE t
         IN CoerceNumeric(u, Tail(cs))

\* Lines 224-227
RECURSIVE CoerceDatetime(_, _)
CoerceDatetime(t, cs) ==
    IF cs = <<>> THEN t
    ELSE LET u == IF HasCol(t.cols, Head(cs))
                  THEN SetCol(t, Head(cs), LAMBDA r : ToDatetime(Cell(t, r, Head(cs))))
                  ELSE t
         IN CoerceDatetime(u, Tail(cs))

\* (dropoff - pickup).dt.total_seconds() / 60
TotalSeconds(d, p) == (d.t - p.t) * 60
TripDuration(d, p) == Num(TotalSeconds(d, p) \div 60)

\* a duration filter that lets the full day through
DurationFilterInclusive(t) ==
    KeepLe(KeepGt(t, "trip_duration", 0), "trip_duration", TRIP_DURATION_MAX)

\* Lines 236-237
DurationFilter(t) == KeepLt(KeepGt(t, "trip_duration", 0), "trip_duration", TRIP_DURATION_MAX)

\* .dt.hour, .dt.day_name(), .dt.month, .dt.weekday of a 2024 timestamp
Hour(v) == Num((v.t % 1440) \div 60)

\* a weekday number that starts the week on Sunday
WeekdaySundayFirst(v) == Num(((v.t \div 1440) + 1) % 7)

Weekday(v) == Num((v.t \div 1440) % 7)
DayName(v) ==
    Str(<<"Monday", "Tuesday", "Wednesday", "Thursday", "Friday", "Saturday",
          "Sunday">>[((v.t \div 1440) % 7) + 1])
MonthStart == <<0, 31, 60, 91, 121, 152, 182, 213, 244, 274, 305, 335>>
Month(v) == Num(Cardinality({m \in 1..12 : MonthStart[m] <= v.t \div 1440}))

\* trip_distance / (trip_duration / 60) in mph, as a fraction n / d
\* (.fillna(0): a missing quotient becomes 0)
Speed(dist, dur) ==
    IF dist.k # "num" \/ dur.k # "num" THEN [k |-> "frac", n |-> 0, d |-> 1]
    ELSE [k |-> "frac", n |-> dist.v * 60, d |-> dur.v * 100]

\* a speed bound that lets the bound itself through
SpeedBelowInclusive(sp, mph) == sp.n <= mph * sp.d

SpeedBelow(sp, mph) == sp.n < mph * sp.d

\* ----------------------------------------------------------------- inputs
TaxiBase == <<Naive(219360), Naive(219390), Num(1), Num(250), Num(1500)>>

\* pickup at 08:00; dropoff a minute before, at, a minute after, 1439 and 1440
\* minutes after, unparseable, missing
DurationRows ==
    {<<p, d>> : p \in {Naive(219360), Str("n/a"), NaN},
                d \in {Naive(219359), Naive(219360), Naive(219361), Naive(220799),
                       Naive(220800), Str("n/a"), NaN}}

\* the base row with one numeric field varied
NumericRows ==
    {TaxiBase}
    \cup {[TaxiBase EXCEPT ![3] = v] : v \in {Num(0), Num(10), Num(11), NaN, Str("two")}}
    \cup {[TaxiBase EXCEPT ![4] = v] : v \in {Num(0), Num(1), Num(4999), Num(5000), Num(9999),
                                              Num(10000), NaN}}
    \cup {[TaxiBase EXCEPT ![5] = v] : v \in {Num(0), Num(99999), Num(100000), NaN}}

\* trips of 20 minutes that start on Monday 2024-01-01 00:00, Thursday
\* 2024-02-29 12:00, Saturday 2024-06-01 08:00 and Sunday 2024-12-29 23:30
CalendarRows ==
    {<<Naive(0), Naive(20)>>, <<Naive(85680), Naive(85700)>>,
     <<Naive(219360), Naive(219380)>>, <<Naive(524130), Naive(524150)>>}

TaxiInputs ==
    {Frame(<<"pickup_datetime", "dropoff_datetime">>, Indexed(vals)) :
        vals \in SeqsUpTo(CalendarRows, MaxRows)}
    \cup
    {Frame(<<"pickup_datetime", "dropoff_datetime">>, Indexed(vals)) :
        vals \in SeqsUpTo(DurationRows, MaxRows)}
    \cup {Frame(<<"pickup_datetime", "dropoff_datetime", "passenger_count", "trip_distance",
                 "fare_amount">>, Indexed(vals)) : vals \in SeqsUpTo(NumericRows, MaxRows)}
    \cup {Frame(<<"pickup_datetime", "dropoff_datetime", "PULocationID", "DOLocationID">>,
                Indexed(<<<<Naive(219360), Naive(219390), Num(132), Num(7)>>>>)),
          \* the columns of fhv_query (lines 170-176)
          Frame(<<"pickup_datetime", "dropoff_datetime", "PUlocationID", "DOlocationID">>,
                Indexed(<<<<Naive(219360), Naive(219390), Num(132), Num(7)>>>>)),
          Frame(<<"pickup_datetime", "passenger_count">>, Indexed(<<<<Naive(219360), Num(1)>>>>)),
          Frame(<<"dropoff_datetime", "trip_distance">>, Indexed(<<<<Naive(219390), Num(250)>>>>)),
          Frame(<<"passenger_count", "fare_amount">>, Indexed(<<<<Num(1), Num(1500)>>>>))}

MergeIdle ==
    /\ dfs = <<>> /\ crs_target = "EPSG:4326" /\ time_cols = <<>>
    /\ pc = "idle" /\ i = 1 /\ j = 1 /\ k = 1
    /\ gdf = NoFrame /\ cleaned_dfs = <<>> /\ merge_cols = <<>> /\ merged = NoFrame
    /\ err = "none" /\ tlog = <<>>
    /\ round = 1 /\ first_out = NoFrame

InitTaxi ==
    /\ MergeIdle
    /\ EtlIdle
    /\ targ \in TaxiInputs
    /\ tin = targ
    /\ tdf = targ
    /\ tsame = TRUE
    /\ tpc = "entry"
    /\ terr = "none"

\* df[c] = ...: the caller's frame changes with it while df is that object
TaxiAssign(t, next) ==
    /\ tdf' = t
    /\ tin' = IF tsame THEN t ELSE tin
    /\ tpc' = next
    /\ UNCHANGED <<targ, tsame, terr>>

\* df = df[...]: df becomes a new object
TaxiRebind(t, next) ==
    /\ tdf' = t
    /\ tsame' = FALSE
    /\ tpc' = next
    /\ UNCHANGED <<targ, tin, terr>>

TaxiSkip(next) == tpc' = next /\ UNCHANGED <<targ, tin, tdf, tsame, terr>>

\* Lines 199-200
TaxiEntry ==
    /\ tpc = "entry"
    /\ TaxiSkip(IF tdf.rows = <<>> THEN "done" ELSE "numeric")
    /\ UNCHANGED mvars
    /\ UNCHANGED xvars

\* Lines 202-206
TaxiNumeric ==
    /\ tpc = "numeric"
    /\ TaxiAssign(CoerceNumeric(tdf, <<"passenger_count", "trip_distance", "fare_amount",
                                       "tip_amount", "total_amount">>), "passenger")
    /\ UNCHANGED mvars
    /\ UNCHANGED xvars

\* Lines 208-211
TaxiPassenger ==
    /\ tpc = "passenger"
    /\ IF HasCol(tdf.cols, "passenger_count")
       THEN TaxiRebind(KeepLe(KeepGt(tdf, "passenger_count", 0), "passenger_count",
                              PASSENGER_MAX), "distance")
       ELSE TaxiSkip("distance")
    /\ UNCHANGED mvars
    /\ UNCHANGED xvars

\* Lines 213-216
TaxiDistance ==
    /\ tpc = "distance"
    /\ IF HasCol(tdf.cols, "trip_distance")
       THEN TaxiRebind(KeepLt(KeepGt(tdf, "trip_distance", 0), "trip_distance",
                              TRIP_DISTANCE_MAX), "fare")
       ELSE TaxiSkip("fare")
    /\ UNCHANGED mvars
    /\ UNCHANGED xvars

\* Lines 218-221
TaxiFare ==
    /\ tpc = "fare"
    /\ IF HasCol(tdf.cols, "fare_amount")
       THEN TaxiRebind(KeepLt(KeepGt(tdf, "fare_amount", 0), "fare_amount", FARE_MAX),
                       "datetime")
       ELSE TaxiSkip("datetime")
    /\ UNCHANGED mvars
    /\ UNCHANGED xvars

\* Lines 223-227
TaxiDatetime ==
    /\ tpc = "datetime"
    /\ TaxiAssign(CoerceDatetime(tdf, <<"pickup_datetime", "dropoff_datetime">>), "dropna")
    /\ UNCHANGED mvars
    /\ UNCHANGED xvars

\* Line 230: dropna(subset=[...]) raises KeyError for a column that is absent
TaxiDropNa ==
    /\ tpc = "dropna"
    /\ IF HasCol(tdf.cols, "pickup_datetime") /\ HasCol(tdf.cols, "dropoff_datetime")
       THEN TaxiRebind(DropNa(tdf, {"pickup_datetime", "dropoff_datetime"}), "duration")
       ELSE tpc' = "raised" /\ terr' = "KeyError" /\ UNCHANGED <<targ, tin, tdf, tsame>>
    /\ UNCHANGED mvars
    /\ UNCHANGED xvars

\* Line 233
TaxiDuration ==
    /\ tpc = "duration"
    /\ IF \E p \in DOMAIN tdf.rows :
             Cell(tdf, tdf.rows[p], "pickup_datetime").k
                 # Cell(tdf, tdf.rows[p], "dropoff_datetime").k
       THEN tpc' = "raised" /\ terr' = "TypeError" /\ UNCHANGED <<targ, tin, tdf, tsame>>
       ELSE TaxiAssign(SetCol(tdf, "trip_duration",
                              LAMBDA r : TripDuration(Cell(tdf, r, "dropoff_datetime"),
                                                      Cell(tdf, r, "pickup_datetime"))),
                       "durfilter")
    /\ UNCHANGED mvars
    /\ UNCHANGED xvars

\* Lines 235-237
TaxiDurationFilter ==
    /\ tpc = "durfilter"
    /\ TaxiRebind(DurationFilter(tdf), "features")
    /\ UNCHANGED mvars
    /\ UNCHANGED xvars

\* Lines 239-243
TaxiFeatures ==
    /\ tpc = "features"
    /\ LET a == SetCol(tdf, "pickup_hour", LAMBDA r : Hour(Cell(tdf, r, "pickup_datetime")))
           b == SetCol(a, "pickup_day", LAMBDA r : DayName(Cell(a, r, "pickup_datetime")))
           c == SetCol(b, "pickup_month", LAMBDA r : Month(Cell(b, r, "pickup_datetime")))
           d == SetCol(c, "pickup_weekday", LAMBDA r : Weekday(Cell(c, r, "pickup_datetime")))
       IN TaxiAssign(d, "speed")
    /\ UNCHANGED mvars
    /\ UNCHANGED xvars

\* Lines 245-248
TaxiSpeed ==
    /\ tpc = "speed"
    /\ IF HasCol(tdf.cols, "trip_distance") /\ HasCol(tdf.cols, "trip_duration")
       THEN LET a == SetCol(tdf, "avg_speed_mph",
                            LAMBDA r : Speed(Cell(tdf, r, "trip_distance"),
                                             Cell(tdf, r, "trip_duration")))
            IN TaxiRebind([a EXCEPT !.rows =
                              SelectSeq(a.rows,
                                        LAMBDA r : SpeedBelow(Cell(a, r, "avg_speed_mph"),
                                                              SPEED_MAX))],
                          "zones")
       ELSE TaxiSkip("zones")
    /\ UNCHANGED mvars
    /\ UNCHANGED xvars

\* Lines 250-256
TaxiZones ==
    /\ tpc = "zones"
    /\ LET a == IF HasCol(tdf.cols, "PULocationID")
                THEN SetCol(tdf, "pickup_zone", LAMBDA r : Cell(tdf, r, "PULocationID"))
                ELSE tdf
           b == IF HasCol(a.cols, "DOLocationID")
                THEN SetCol(a, "dropoff_zone", LAMBDA r : Cell(a, r, "DOLocationID"))
                ELSE a
       IN TaxiAssign(b, "done")
    /\ UNCHANGED mvars
    /\ UNCHANGED xvars

NextTaxi ==
    \/ TaxiEntry
    \/ TaxiNumeric
    \/ TaxiPassenger
    \/ TaxiDistance
    \/ TaxiFare
    \/ TaxiDatetime
    \/ TaxiDropNa
    \/ TaxiDuration
    \/ TaxiDurationFilter
    \/ TaxiFeatures
    \/ TaxiSpeed
    \/ TaxiZones

SpecTaxi == InitTaxi /\ [][NextTaxi]_vars

\* ========================================== _clean_bikeshare_data (346-379)
\* LATITUDE and LONGITUDE are integers in 1e-4 degree, YEAR is a year number.
BIKE_LAT_MIN == 405000
BIKE_LAT_MAX == 410000
BIKE_LON_MIN == -743000
BIKE_LON_MAX == -737000
YEAR_RECENT == 2020
YEAR_HISTORICAL == 2015

\* Series.between with both bounds excluded
BetweenExclusive(v, lo, hi) == v.k = "num" /\ v.v > lo /\ v.v < hi

\* Series.between(lo, hi): both bounds included, a missing value is False
Between(v, lo, hi) == v.k = "num" /\ v.v >= lo /\ v.v <= hi

\* Lines 358-361
BikeBoundsFilter(t) ==
    [t EXCEPT !.rows =
        SelectSeq(t.rows, LAMBDA r : /\ Between(Cell(t, r, "LATITUDE"), BIKE_LAT_MIN, BIKE_LAT_MAX)
                                     /\ Between(Cell(t, r, "LONGITUDE"), BIKE_LON_MIN,
                                                BIKE_LON_MAX))]

\* str(x) inside an f-string
Text(v) == IF v.k = "str" THEN v.v ELSE "nan"

\* Line 369, for one row
StationLocation(t, r) ==
    IF ~IsNull(Cell(t, r, "STATION_NAME"))
    THEN Str(Text(Cell(t, r, "STATION_NAME")) \o ", " \o Text(Cell(t, r, "CITY")))
    ELSE Str("Unknown")

\* the lambda of line 369 raises KeyError on some row of t
StationLocationRaises(t) ==
    \/ t.rows # <<>> /\ ~HasCol(t.cols, "STATION_NAME")
    \/ /\ HasCol(t.cols, "STATION_NAME") /\ ~HasCol(t.cols, "CITY")
       /\ \E p \in DOMAIN t.rows : ~IsNull(Cell(t, t.rows[p], "STATION_NAME"))

\* a year bucket with the first bound excluded
YearCategoryAfter(v) ==
    IF v.k = "num" /\ v.v > YEAR_RECENT THEN Str("Recent")
    ELSE IF v.k = "num" /\ v.v >= YEAR_HISTORICAL THEN Str("Historical")
    ELSE Str("Legacy")

\* The lambda of line 376 on a number or on NaN (NaN >= n is False)
YearCategory(v) ==
    IF v.k = "num" /\ v.v >= YEAR_RECENT THEN Str("Recent")
    ELSE IF v.k = "num" /\ v.v >= YEAR_HISTORICAL THEN Str("Historical")
    ELSE Str("Legacy")

\* The column YEAR was passed with text in it: an object column, whose
\* missing values are None
ObjectYear(t) == \E p \in DOMAIN t.rows : Cell(t, t.rows[p], "YEAR").k = "str"

\* x >= 2020 raises TypeError for some record of t: x is text, or None
YearCategoryRaises(t, passed) ==
    \E p \in DOMAIN t.rows :
        \/ Cell(t, t.rows[p], "YEAR").k = "str"
        \/ IsNull(Cell(t, t.rows[p], "YEAR")) /\ ObjectYear(passed)

\* ----------------------------------------------------------------- inputs
BikeBase ==
    <<Str("Bay St"), Str("NYC"), Num(407500), Num(-739800), Num(2021), Naive(219360)>>

\* the base station with one field varied
BikeRows ==
    {BikeBase}
    \cup {[BikeBase EXCEPT ![3] = v] :
            v \in {Num(BIKE_LAT_MIN), Num(BIKE_LAT_MIN - 1), Num(BIKE_LAT_MAX),
                   Num(BIKE_LAT_MAX + 1), NaN, Str("n/a")}}
    \cup {[BikeBase EXCEPT ![4] = v] :
            v \in {Num(BIKE_LON_MIN), Num(BIKE_LON_MIN - 1), Num(BIKE_LON_MAX),
                   Num(BIKE_LON_MAX + 1), NaN}}
    \cup {[BikeBase EXCEPT ![5] = v] :
            v \in {Num(2020), Num(2019), Num(2015), Num(2014), NaN, Str("n/a")}}
    \cup {[BikeBase EXCEPT ![1] = NaN], [BikeBase EXCEPT ![2] = NaN],
          [BikeBase EXCEPT ![6] = Str("n/a")]}

BikeInputs ==
    {Frame(<<"STATION_NAME", "CITY", "LATITUDE", "LONGITUDE", "YEAR", "ASOFDATE">>,
           Indexed(vals)) : vals \in SeqsUpTo(BikeRows, MaxRows)}
    \cup {Frame(<<"STATION_NAME", "CITY", "LATITUDE", "LONGITUDE">>,
                Indexed(<<<<Str("Bay St"), Str("NYC"), Num(407500), Num(-739800)>>>>)),
          Frame(<<"STATION_NAME", "LATITUDE", "LONGITUDE", "YEAR">>,
                Indexed(<<<<NaN, Num(407500), Num(-739800), Num(2021)>>>>)),
          Frame(<<"STATION_NAME", "LATITUDE", "LONGITUDE", "YEAR">>,
                Indexed(<<<<Str("Bay St"), Num(407500), Num(-739800), Num(2021)>>>>)),
          Frame(<<"CITY", "LATITUDE", "LONGITUDE", "YEAR">>,
                Indexed(<<<<Str("NYC"), Num(407500), Num(-739800), Num(2021)>>>>)),
          Frame(<<"STATION_NAME", "CITY", "LONGITUDE", "YEAR">>,
                Indexed(<<<<Str("Bay St"), Str("NYC"), Num(-739800), Num(2021)>>>>))}

InitBike ==
    /\ MergeIdle
    /\ TaxiIdle
    /\ FleetIdle
    /\ SubwayIdle
    /\ barg \in BikeInputs
    /\ bdf = barg
    /\ bpc = "entry"
    /\ berr = "none"

BikeGo(t, next) == bdf' = t /\ bpc' = next /\ UNCHANGED <<barg, berr>>
BikeRaise(e) == bpc' = "raised" /\ berr' = e /\ UNCHANGED <<barg, bdf>>

\* Lines 348-349
BikeEntry ==
    /\ bpc = "entry"
    /\ BikeGo(bdf, IF bdf.rows = <<>> THEN "done" ELSE "numeric")
    /\ UNCHANGED <<mvars, tvars, fvars, svars>>

\* Lines 351-355
BikeNumeric ==
    /\ bpc = "numeric"
    /\ BikeGo(CoerceNumeric(bdf, <<"LATITUDE", "LONGITUDE">>), "bounds")
    /\ UNCHANGED <<mvars, tvars, fvars, svars>>

\* Lines 357-361: df['LATITUDE'] raises KeyError for an absent column
BikeBounds ==
    /\ bpc = "bounds"
    /\ IF HasCol(bdf.cols, "LATITUDE") /\ HasCol(bdf.cols, "LONGITUDE")
       THEN BikeGo(BikeBoundsFilter(bdf), "date")
       ELSE BikeRaise("KeyError")
    /\ UNCHANGED <<mvars, tvars, fvars, svars>>

\* Lines 363-365
BikeDate ==
    /\ bpc = "date"
    /\ BikeGo(CoerceDatetime(bdf, <<"ASOFDATE">>), "location")
    /\ UNCHANGED <<mvars, tvars, fvars, svars>>

\* Lines 367-371. On a frame without records df.apply(..., axis=1) returns a
\* frame, not a column: the assignment raises ValueError or stores an empty
\* column, depending on the pandas version.
BikeLocation ==
    /\ bpc = "location"
    /\ IF bdf.rows = <<>>
       THEN \/ BikeRaise("ValueError")
            \/ BikeGo(SetCol(bdf, "station_location", LAMBDA r : Str("Unknown")), "year")
       ELSE IF StationLocationRaises(bdf) THEN BikeRaise("KeyError")
       ELSE BikeGo(SetCol(bdf, "station_location", LAMBDA r : StationLocation(bdf, r)), "year")
    /\ UNCHANGED <<mvars, tvars, fvars, svars>>

\* Lines 373-379
BikeYear ==
    /\ bpc = "year"
    /\ IF ~HasCol(bdf.cols, "YEAR") THEN BikeGo(bdf, "done")
       ELSE IF YearCategoryRaises(bdf, barg) THEN BikeRaise("TypeError")
       ELSE BikeGo(SetCol(bdf, "year_category", LAMBDA r : YearCategory(Cell(bdf, r, "YEAR"))),
                   "done")
    /\ UNCHANGED <<mvars, tvars, fvars, svars>>

NextBike ==
    \/ BikeEntry
    \/ BikeNumeric
    \/ BikeBounds
    \/ BikeDate
    \/ BikeLocation
    \/ BikeYear

SpecBike == InitBike /\ [][NextBike]_vars

\* ============================================= process_taxi_data (85-195)
\* The three try blocks, in the order of the text
TaxiSources == <<"yellow", "green", "fhv">>

\* The columns the three queries select, as far as _clean_taxi_data reads them
QueryColumns(s) ==
    IF s = "fhv"
    THEN <<"pickup_datetime", "dropoff_datetime", "PUlocationID", "DOlocationID">>
    ELSE <<"pickup_datetime", "dropoff_datetime", "passenger_count", "trip_distance",
           "fare_amount", "PULocationID", "DOLocationID">>

\* A trip of 30 minutes; a trip of no duration, which the cleaning removes; a
\* trip whose dropoff alone carries a UTC offset, on which line 233 raises
QueryRows(s) ==
    LET tail == IF s = "fhv" THEN <<Num(132), Num(7)>>
                ELSE <<Num(1), Num(250), Num(1500), Num(132), Num(7)>>
    IN {<<Naive(219360), Naive(219390)>> \o tail,
        <<Naive(219360), Naive(219360)>> \o tail,
        <<Naive(219360), Aware(219390, NYC_DST)>> \o tail}

\* What pd.read_sql can return for a source: no row, or one row
QueryResults(s) ==
    {Frame(QueryColumns(s), <<>>)}
    \cup {Frame(QueryColumns(s), Indexed(<<r>>)) : r \in QueryRows(s)}

\* the handler falls out of the whole function
ExceptAbort(n) == Len(TaxiSources) + 1

\* Lines 125-126, 163-164, 191-192: the handler logs, and control falls
\* through to the statement after the try block
ExceptNext(n) == n + 1

InitFleet ==
    /\ MergeIdle
    /\ TaxiIdle
    /\ BikeIdle
    /\ SubwayIdle
    /\ taxi_data = <<>>
    /\ fsrc = 1
    /\ fpc = "query"
    /\ flog = <<>>

FleetLog(q, n, c) ==
    flog' = Append(flog, [source |-> TaxiSources[fsrc], query |-> q, rows |-> n, clean |-> c])

\* Lines 116-120 (154-158, 182-186): the query, the test for an empty result
\* and the call of _clean_taxi_data
FleetQuery ==
    /\ fpc = "query"
    /\ fsrc <= Len(TaxiSources)
    /\ \/ /\ FleetLog("raised", 0, "none")
          /\ fsrc' = ExceptNext(fsrc)
          /\ UNCHANGED <<taxi_data, fpc, tvars>>
       \/ \E df \in QueryResults(TaxiSources[fsrc]) :
             IF df.rows = <<>>
             THEN /\ FleetLog("ok", 0, "none")
                  /\ fsrc' = fsrc + 1
                  /\ UNCHANGED <<taxi_data, fpc, tvars>>
             ELSE /\ targ' = df /\ tin' = df /\ tdf' = df /\ tsame' = TRUE
                  /\ tpc' = "entry" /\ terr' = "none"
                  /\ fpc' = "clean"
                  /\ UNCHANGED <<taxi_data, fsrc, flog>>
    /\ UNCHANGED <<mvars, bvars, svars>>

\* Lines 120-123 (158-161, 186-189): _clean_taxi_data has returned
FleetStore ==
    /\ fpc = "clean"
    /\ tpc = "done"
    /\ LET name == TaxiSources[fsrc]
           df == SetCol(tdf, "taxi_type", LAMBDA r : Str(name))
       IN taxi_data' = [s \in DOMAIN taxi_data \cup {name} |->
                            IF s = name THEN df ELSE taxi_data[s]]
    /\ FleetLog("ok", Len(targ.rows), "ok")
    /\ fsrc' = fsrc + 1
    /\ fpc' = "query"
    /\ targ' = NoFrame /\ tin' = NoFrame /\ tdf' = NoFrame
    /\ tsame' = TRUE /\ tpc' = "idle" /\ terr' = "none"
    /\ UNCHANGED <<mvars, bvars, svars>>

\* Lines 125-126 (163-164, 191-192): _clean_taxi_data has raised
FleetExcept ==
    /\ fpc = "clean"
    /\ tpc = "raised"
    /\ FleetLog("ok", Len(targ.rows), "raised")
    /\ fsrc' = ExceptNext(fsrc)
    /\ fpc' = "query"
    /\ targ' = NoFrame /\ tin' = NoFrame /\ tdf' = NoFrame
    /\ tsame' = TRUE /\ tpc' = "idle" /\ terr' = "none"
    /\ UNCHANGED taxi_data
    /\ UNCHANGED <<mvars, bvars, svars>>

\* Line 195
FleetReturn ==
    /\ fpc = "query"
    /\ fsrc > Len(TaxiSources)
    /\ fpc' = "done"
    /\ UNCHANGED <<taxi_data, fsrc, flog>>
    /\ UNCHANGED <<mvars, tvars, bvars, svars>>

NextFleet ==
    \/ FleetQuery
    \/ TaxiEntry
    \/ TaxiNumeric
    \/ TaxiPassenger
    \/ TaxiDistance
    \/ TaxiFare
    \/ TaxiDatetime
    \/ TaxiDropNa
    \/ TaxiDuration
    \/ TaxiDurationFilter
    \/ TaxiFeatures
    \/ TaxiSpeed
    \/ TaxiZones
    \/ FleetStore
    \/ FleetExcept
    \/ FleetReturn

SpecFleet == InitFleet /\ [][NextFleet]_vars

\* ========================================== process_subway_data (258-309)
\* Lines 264-267
subway_tables ==
    <<"dbo.MTA_Subway_Turnstile_Usage_Data_2022_20250720", "dbo.mta_1706">>

\* Lines 57-72: the column names get_table_structure can return; none when
\* the lookup raised or the table has no columns
Structures == {<<>>, <<"linename", "station">>, <<"C_A", "UNIT">>}

\* Lines 280-292: the columns of the query built from the structure
SelectedColumns(columns) ==
    IF HasCol(columns, "linename") THEN <<"linename", "station", "entry_count">>
    ELSE columns

ResultRows(columns) ==
    IF HasCol(columns, "linename")
    THEN {<<Str("A"), Str("Canal St"), Num(3)>>, <<Str("7"), Str("Main St"), Num(1)>>}
    ELSE {<<Str("A002"), Str("R051")>>, <<Str("A006"), Str("R079")>>}

\* Line 294: what pd.read_sql can return
SubwayResults(columns) ==
    {Frame(SelectedColumns(columns), Indexed(vals)) :
        vals \in SeqsUpTo(ResultRows(columns), MaxRows)}

\* a loop without the break of line 299
NoBreak(n) == n + 1

\* Line 299
Break(n) == Len(subway_tables) + 1

InitSubway ==
    /\ MergeIdle
    /\ TaxiIdle
    /\ BikeIdle
    /\ FleetIdle
    /\ subway_df = NoFrame
    /\ stbl = 1
    /\ structure = <<>>
    /\ spc = "structure"
    /\ slog = <<>>

SubwayLog(o, df) ==
    slog' = Append(slog, [table |-> subway_tables[stbl], outcome |-> o, df |-> df])

\* Lines 271-276
SubwayStructure ==
    /\ spc = "structure"
    /\ stbl <= Len(subway_tables)
    /\ \E st \in Structures :
          IF st = <<>>
          THEN /\ SubwayLog("no structure", NoFrame)
               /\ stbl' = stbl + 1
               /\ UNCHANGED <<structure, spc>>
          ELSE /\ structure' = st
               /\ spc' = "query"
               /\ UNCHANGED <<stbl, slog>>
    /\ UNCHANGED subway_df
    /\ UNCHANGED <<mvars, tvars, bvars, fvars>>

\* Lines 278-303
SubwayQuery ==
    /\ spc = "query"
    /\ \/ /\ SubwayLog("raised", NoFrame)
          /\ stbl' = stbl + 1
          /\ UNCHANGED subway_df
       \/ \E df \in SubwayResults(structure) :
             IF df.rows = <<>>
             THEN /\ SubwayLog("empty", df)
                  /\ stbl' = stbl + 1
                  /\ UNCHANGED subway_df
             ELSE /\ SubwayLog("rows", df)
                  /\ subway_df' = df
                  /\ stbl' = Break(stbl)
    /\ spc' = "structure"
    /\ structure' = <<>>
    /\ UNCHANGED <<mvars, tvars, bvars, fvars>>

\* Line 305
SubwayReturn ==
    /\ spc = "structure"
    /\ stbl > Len(subway_tables)
    /\ spc' = "done"
    /\ UNCHANGED <<subway_df, stbl, structure, slog>>
    /\ UNCHANGED <<mvars, tvars, bvars, fvars>>

NextSubway ==
    \/ SubwayStructure
    \/ SubwayQuery
    \/ SubwayReturn

SpecSubway == InitSubway /\ [][NextSubway]_vars

\* ================================================================ claims
Merging == pc \in {"join", "ret", "done"}

\* Every frame that has passed the bounding-box filter of lines 51-54
Filtered ==
    (IF pc = "time" THEN {gdf} ELSE {}) \cup Range(cleaned_dfs)
        \cup (IF Merging THEN {merged} ELSE {})

GeometryOf(t) == {Cell(t, t.rows[p], "geometry") : p \in DOMAIN t.rows}

\* latitude in [40.4774, 40.9176] and longitude in [-74.2591, -73.7004]
InNycDegrees(g) ==
    /\ g.k = "pt" /\ g.u = 10000
    /\ g.y >= 404774 /\ g.y <= 409176
    /\ g.x >= -742591 /\ g.x <= -737004

LatLonInNyc(latv, lonv) ==
    /\ latv.k = "num" /\ lonv.k = "num"
    /\ latv.v >= 404774 /\ latv.v <= 409176
    /\ lonv.v >= -742591 /\ lonv.v <= -737004

\* C1: every record that has passed the plausibility filter - in the frame
\* being cleaned, in the cleaned frames and in the merged output - has its
\* point inside the box, bounds inclusive; and of a lat/lon table that is not
\* reprojected exactly the records with both coordinates inside the box pass.
C1_SurvivorsInsideBox ==
    /\ \A t \in Filtered : \A g \in GeometryOf(t) : InNycDegrees(g)
    /\ (/\ pc = "time" /\ j = 1
        /\ HasCol(dfs[i].cols, "lat") /\ HasCol(dfs[i].cols, "lon")
        /\ ~HasCol(dfs[i].cols, "geometry") /\ crs_target # "EPSG:3857")
       => RowIds(gdf) = {dfs[i].rows[p].idx : p \in
                           {q \in DOMAIN dfs[i].rows :
                               LatLonInNyc(Cell(dfs[i], dfs[i].rows[q], "lat"),
                                           Cell(dfs[i], dfs[i].rows[q], "lon"))}}

\* The filter has dropped (41.5, -73.9) and kept the corner (40.4774, -74.2591)
C1_Witness ==
    /\ pc = "time" /\ j = 1
    /\ dfs[1].cols = <<"lat", "lon">>
    /\ Len(dfs[1].rows) = 2
    /\ dfs[1].rows[1].val = <<Num(415000), Num(-739000)>>
    /\ dfs[1].rows[2].val = <<Num(404774), Num(-742591)>>
    /\ Len(gdf.rows) = 1
    /\ GeometryOf(gdf) = {Pt(-742591, 404774)}

\* The names under which a configured time column can reach the output
TimeLabels == Range(time_cols) \cup {c \o "_dup" : c \in Range(time_cols)}

IsUtc(v) == v.k = "aware" /\ v.off = 0 /\ TzConvertUTC(v) = v

AllUtc(t, labels) ==
    \A p \in DOMAIN t.cols : t.cols[p] \in labels =>
        \A q \in DOMAIN t.rows : IsUtc(t.rows[q].val[p])

InAll(c) == \A q \in DOMAIN cleaned_dfs : HasCol(cleaned_dfs[q].cols, c)

PosIn(s, c) == CHOOSE p \in DOMAIN s : s[p] = c

\* C3: once computed, the key set holds a column exactly when it is a
\* configured time column or 'geometry' and every cleaned frame has it; the
\* time columns come in time_cols order and 'geometry' last; no other shared
\* column is a key.
C3_MergeKeys ==
    Merging =>
        /\ \A c \in ColumnNames \cup Range(time_cols) :
              c \in Range(merge_cols) <=>
                  (c \in Range(time_cols) \cup {"geometry"} /\ InAll(c))
        /\ \A a, b \in DOMAIN merge_cols :
              a < b => /\ merge_cols[a] # merge_cols[b]
                       /\ merge_cols[a] # "geometry"
                       /\ merge_cols[b] # "geometry" =>
                              PosIn(time_cols, merge_cols[a]) < PosIn(time_cols, merge_cols[b])

\* Two frames that share 'fare', 'lat' and 'lon' were joined on geometry alone
C3_Witness ==
    /\ pc = "done"
    /\ Len(cleaned_dfs) = 2
    /\ InAll("fare") /\ InAll("lat")
    /\ merge_cols = <<"geometry">>

\* The frames joined so far (all of them once the call is done)
Joined == IF pc \in {"join", "done"} /\ merge_cols # <<>> THEN k - 1 ELSE 0

\* The columns frame q contributes to the output: all of the first frame's,
\* the non-key ones of a later frame
Contributed(q) ==
    IF q = 1 THEN cleaned_dfs[1].cols
    ELSE LET rpos == NonKeyPos(cleaned_dfs[q], merge_cols)
         IN [o \in DOMAIN rpos |-> cleaned_dfs[q].cols[rpos[o]]]

ContributedCells(q, r) ==
    IF q = 1 THEN r.val
    ELSE LET rpos == NonKeyPos(cleaned_dfs[q], merge_cols)
         IN [o \in DOMAIN rpos |-> r.val[rpos[o]]]

RECURSIVE Base(_)
Base(q) == IF q = 1 THEN 0 ELSE Base(q - 1) + Len(Contributed(q - 1))

Distinct(s) == \A a, b \in DOMAIN s : a # b => s[a] # s[b]

\* C4 (as claimed): in the join branch every non-key column of every input
\* is an output column of its own and no two output columns share a name
\* (stated here for inputs none of whose columns is already named x_dup).
C4_NoSharedNames ==
    (pc = "done" /\ merge_cols # <<>>) =>
        /\ Len(merged.cols) = Base(Len(cleaned_dfs) + 1)
        /\ (\A q \in DOMAIN dfs : \A c \in ColumnNames : ~HasCol(dfs[q].cols, c \o "_dup"))
              => Distinct(merged.cols)

\* C4 (amended): in the join branch nothing is overwritten or lost - the
\* output has one column for every column of the first frame and for every
\* non-key column of each later frame, holding the values of a row of that
\* frame, and a later column is named with '_dup' exactly when its name is
\* already in the accumulated result; the names are pairwise distinct for two
\* frames none of whose columns is already named x_dup.
C4_ColumnsKept ==
    Joined >= 1 =>
        /\ Len(merged.cols) = Base(Joined + 1)
        /\ \A q \in 1..Joined : \A o \in DOMAIN Contributed(q) :
              merged.cols[Base(q) + o] =
                  IF q > 1 /\ \E p \in 1..Base(q) : merged.cols[p] = Contributed(q)[o]
                  THEN Contributed(q)[o] \o "_dup" ELSE Contributed(q)[o]
        /\ \A m \in DOMAIN merged.rows : \A q \in 1..Joined :
              \E p \in DOMAIN cleaned_dfs[q].rows :
                  \A o \in DOMAIN Contributed(q) :
                      merged.rows[m].val[Base(q) + o]
                          = ContributedCells(q, cleaned_dfs[q].rows[p])[o]
        /\ (/\ Joined = 2
            /\ \A q \in 1..2 : \A c \in ColumnNames : ~HasCol(cleaned_dfs[q].cols, c \o "_dup"))
           => Distinct(merged.cols)

\* Three lat/lon frames were joined: two output columns are named lat_dup
C4_Witness ==
    /\ pc = "done"
    /\ Len(cleaned_dfs) = 3
    /\ Len(merged.rows) >= 1
    /\ \E a, b \in DOMAIN merged.cols :
          a # b /\ merged.cols[a] = "lat_dup" /\ merged.cols[b] = "lat_dup"

\* A table with no 'geometry' column and no latitude-like/longitude-like pair
NoGeometrySource(t) ==
    /\ ~HasCol(t.cols, "geometry")
    /\ ~((\E p \in DOMAIN t.cols : LatLike(t.cols[p])) /\ (\E p \in DOMAIN t.cols : LonLike(t.cols[p])))

Ended == pc \in {"done", "raised"}

RECURSIVE RowCount(_)
RowCount(ts) == IF ts = <<>> THEN 0 ELSE Len(Head(ts).rows) + RowCount(Tail(ts))

\* C5: a call whose tables share no key - some table has no geometry and no
\* configured time column is in every table - returns the row-wise
\* concatenation of the cleaned tables: as many rows as they have together.
C5_NoSharedKeyConcatenates ==
    (/\ Ended /\ dfs # <<>>
     /\ \E p \in DOMAIN dfs : NoGeometrySource(dfs[p])
     /\ \A c \in Range(time_cols) : \E p \in DOMAIN dfs : ~HasCol(dfs[p].cols, c))
    => /\ pc = "done"
       /\ merge_cols = <<>>
       /\ Len(merged.rows) = RowCount(cleaned_dfs)

\* C6: a table without geometry is not filtered by the plausibility stage:
\* its records reach time normalisation unchanged and the call does not end
\* in an error while that table is being cleaned.
C6_NoGeometryPassesThrough ==
    (dfs # <<>> /\ NoGeometrySource(dfs[i])) =>
        /\ pc # "raised"
        /\ (pc = "time" /\ j = 1) => gdf.rows = dfs[i].rows

\* C7: a call with totally empty input - an empty list, or geometry-capable
\* tables with zero rows - returns an empty merged table instead of raising.
C7_EmptyInputReturnsEmpty ==
    (/\ Ended
     /\ \A p \in DOMAIN dfs : dfs[p].rows = <<>> /\ ~NoGeometrySource(dfs[p]))
    => pc = "done" /\ merged.rows = <<>>

\* A wall-clock time that occurs twice (2024-11-03 01:00-01:59) or not at all
\* (2024-03-10 02:00-02:59) in America/New_York
FoldOrGap(v) ==
    /\ v.k = "naive"
    /\ \/ v.t >= 442140 /\ v.t < 442200
       \/ v.t >= 99480 /\ v.t < 99540

\* The row of input table q that carries index label id
InputRow(q, id) == dfs[q].rows[id + 1]

\* C8: a tz-naive column never raises because of an ambiguous or non-existent
\* local time; the record holding one is dropped while its column is
\* normalised, and no cleaned frame holds a record whose configured time
\* column was such a value.
C8_AmbiguousExcluded ==
    /\ \A a \in DOMAIN tlog :
          tlog[a].tz = "naive" =>
              /\ tlog[a].ok
              /\ \A id \in tlog[a].inn :
                    FoldOrGap(Cell(dfs[tlog[a].i], InputRow(tlog[a].i, id), tlog[a].c))
                        => id \notin tlog[a].out
    /\ \A q \in DOMAIN cleaned_dfs : \A id \in RowIds(cleaned_dfs[q]) :
          \A c \in Range(time_cols) :
              HasCol(dfs[q].cols, c) => ~FoldOrGap(Cell(dfs[q], InputRow(q, id), c))

\* 2024-11-03 01:30 was in a tz-naive column, the column was normalised
\* without error and the record is gone while another record stayed
C8_Witness ==
    /\ pc = "done"
    /\ \E a \in DOMAIN tlog :
          /\ tlog[a].ok /\ tlog[a].tz = "naive" /\ tlog[a].out # {}
          /\ \E id \in tlog[a].inn \ tlog[a].out :
                Cell(dfs[tlog[a].i], InputRow(tlog[a].i, id), tlog[a].c) = Naive(442170)

Resolvable(v) == v.k = "aware" \/ (v.k = "naive" /\ ~FoldOrGap(v))

\* The first time column normalised for table q, if any
FirstLog(q) == CHOOSE a \in DOMAIN tlog : tlog[a].i = q /\ \A b \in 1..(a - 1) : tlog[b].i # q

\* C9: the configured time columns of a table are normalised one after the
\* other in time_cols order, each on exactly the records the previous one
\* left, and the records of the cleaned frame are exactly those that entered
\* the stage with every configured time column of the table resolvable.
C9_CumulativeDrops ==
    /\ \A a, b \in DOMAIN tlog :
          (a < b /\ tlog[a].i = tlog[b].i) =>
              /\ tlog[a].ok
              /\ PosIn(time_cols, tlog[a].c) < PosIn(time_cols, tlog[b].c)
              /\ tlog[b].inn \subseteq tlog[a].out
              /\ b = a + 1 => tlog[b].inn = tlog[a].out
    /\ \A q \in DOMAIN cleaned_dfs :
          (\E a \in DOMAIN tlog : tlog[a].i = q) =>
              RowIds(cleaned_dfs[q]) =
                  {id \in tlog[FirstLog(q)].inn :
                      \A c \in Range(time_cols) :
                          HasCol(dfs[q].cols, c) => Resolvable(Cell(dfs[q], InputRow(q, id), c))}

\* The record dropped for its first time column held a tz-aware value in the
\* second, which was then normalised as a tz-naive column
C9_Witness ==
    /\ Len(tlog) = 2 /\ tlog[1].i = tlog[2].i
    /\ tlog[2].ok /\ tlog[2].tz = "naive" /\ tlog[2].out # {}
    /\ \E id \in tlog[1].inn \ tlog[1].out :
          Cell(dfs[tlog[1].i], InputRow(tlog[1].i, id), tlog[2].c).k = "aware"

\* ------------------------------------------------------------------- C10
\* the record of the frame as passed that carries index label id
TaxiArgRow(id) == targ.rows[id + 1]

\* the sanitizer has computed trip_duration and applied its bounds
DurationSettled == tpc \in {"features", "speed", "zones", "done"}

\* a timestamp cell of the frame as passed that parsing leaves missing
Unparsed(v) == v.k \in {"nan", "str"}

\* C10: on a non-empty input, no record with a missing pickup or dropoff
\* timestamp is left when the duration is about to be computed; every record
\* kept after the duration filter carries trip_duration equal to its dropoff
\* minus its pickup in minutes, and that value is strictly between 0 and 1440.
C10_TripDuration ==
    /\ (tpc = "duration" \/ DurationSettled) =>
          \A p \in DOMAIN tdf.rows :
             /\ ~IsNull(Cell(tdf, tdf.rows[p], "pickup_datetime"))
             /\ ~IsNull(Cell(tdf, tdf.rows[p], "dropoff_datetime"))
             /\ ~Unparsed(Cell(targ, TaxiArgRow(tdf.rows[p].idx), "pickup_datetime"))
             /\ ~Unparsed(Cell(targ, TaxiArgRow(tdf.rows[p].idx), "dropoff_datetime"))
    /\ tpc = "duration" => ~HasCol(tdf.cols, "trip_duration")
    /\ DurationSettled =>
          \A p \in DOMAIN tdf.rows :
             LET r == tdf.rows[p]
                 a == Cell(targ, TaxiArgRow(r.idx), "pickup_datetime")
                 b == Cell(targ, TaxiArgRow(r.idx), "dropoff_datetime")
                 d == Cell(tdf, r, "trip_duration")
             IN /\ d.k = "num"
                /\ d.v = b.t - a.t
                /\ d.v > 0
                /\ d.v < 1440

\* a finished call that dropped a record without a dropoff time, dropped a
\* record of exactly 1440 minutes or kept none of 0, and kept one of 1439
C10_Witness ==
    /\ tpc = "done"
    /\ \E p \in DOMAIN tdf.rows : Cell(tdf, tdf.rows[p], "trip_duration") = Num(1439)
    /\ \E q \in DOMAIN targ.rows :
          /\ Unparsed(Cell(targ, targ.rows[q], "dropoff_datetime"))
          /\ \A p \in DOMAIN tdf.rows : tdf.rows[p].idx # targ.rows[q].idx

\* ------------------------------------------------------------------- C11
\* the value record r of the returned frame had in column c when passed
TaxiArgCell(r, c) == Cell(targ, TaxiArgRow(r.idx), c)

BothTimestamps(t) == HasCol(t.cols, "pickup_datetime") /\ HasCol(t.cols, "dropoff_datetime")

\* v is a number with 0 < v, and v < hi or (incl) v <= hi
InRange(v, hi, incl) == v.k = "num" /\ v.v > 0 /\ (IF incl THEN v.v <= hi ELSE v.v < hi)

\* C11: every record of the returned frame has, in each range-checked column
\* the frame has, the number it was passed with, and 0 < passenger_count <= 10,
\* 0 < trip_distance < 100 miles, 0 < fare_amount < 1000 dollars; a frame with
\* both timestamp columns never makes the call raise.
C11_RangeChecked ==
    /\ (tpc = "done" /\ targ.rows # <<>>) =>
          \A p \in DOMAIN tdf.rows :
             /\ HasCol(targ.cols, "passenger_count") =>
                   /\ Cell(tdf, tdf.rows[p], "passenger_count")
                          = TaxiArgCell(tdf.rows[p], "passenger_count")
                   /\ InRange(Cell(tdf, tdf.rows[p], "passenger_count"), 10, TRUE)
             /\ HasCol(targ.cols, "trip_distance") =>
                   /\ Cell(tdf, tdf.rows[p], "trip_distance")
                          = TaxiArgCell(tdf.rows[p], "trip_distance")
                   /\ InRange(Cell(tdf, tdf.rows[p], "trip_distance"), 10000, FALSE)
             /\ HasCol(targ.cols, "fare_amount") =>
                   /\ Cell(tdf, tdf.rows[p], "fare_amount")
                          = TaxiArgCell(tdf.rows[p], "fare_amount")
                   /\ InRange(Cell(tdf, tdf.rows[p], "fare_amount"), 100000, FALSE)
    /\ (tpc # "idle" /\ BothTimestamps(targ)) => tpc # "raised"

\* a record with trip_distance 0 and one with a passenger_count that is no
\* number were passed; the call returned without either
C11_Witness ==
    /\ tpc = "done"
    /\ BothTimestamps(targ) /\ HasCol(targ.cols, "trip_distance")
    /\ Len(targ.rows) = 2 /\ tdf.rows = <<>>
    /\ Cell(targ, targ.rows[1], "trip_distance") = Num(0)
    /\ Cell(targ, targ.rows[2], "passenger_count") = Str("two")

\* ------------------------------------------------------------------- C12
\* C12: once the speed filter has run on a frame with a trip_distance column,
\* every record carries avg_speed_mph = trip_distance / (trip_duration / 60)
\* computed from the values it was passed with, the value is strictly below
\* 100, and the denominator is positive when the quotient is taken.
C12_AvgSpeed ==
    /\ (tpc = "speed" /\ HasCol(tdf.cols, "trip_distance")) =>
          \A p \in DOMAIN tdf.rows : /\ Cell(tdf, tdf.rows[p], "trip_duration").k = "num"
                                     /\ Cell(tdf, tdf.rows[p], "trip_duration").v > 0
    /\ (tpc \in {"zones", "done"} /\ targ.rows # <<>> /\ HasCol(targ.cols, "trip_distance")) =>
          \A p \in DOMAIN tdf.rows :
             LET r == tdf.rows[p]
                 sp == Cell(tdf, r, "avg_speed_mph")
                 dist == TaxiArgCell(r, "trip_distance").v
                 dur == TaxiArgCell(r, "dropoff_datetime").t - TaxiArgCell(r, "pickup_datetime").t
             IN /\ sp.k = "frac" /\ sp.d > 0
                \* sp = (dist / 100) / (dur / 60)
                /\ sp.n * dur * 100 = dist * 60 * sp.d
                /\ sp.n < 100 * sp.d

\* 50 miles in 30 minutes (100 mph) was dropped, 49.99 miles in 30 minutes kept
C12_Witness ==
    /\ tpc = "done"
    /\ HasCol(targ.cols, "trip_distance")
    /\ Len(targ.rows) = 2 /\ Len(tdf.rows) = 1
    /\ Cell(targ, targ.rows[1], "trip_distance") = Num(5000)
    /\ Cell(targ, targ.rows[2], "trip_distance") = Num(4999)
    /\ Cell(tdf, tdf.rows[1], "trip_distance") = Num(4999)

\* ------------------------------------------------------------------- C13
\* the first column of cols whose name is in names
FirstOf(cols, names) ==
    cols[CHOOSE p \in DOMAIN cols : cols[p] \in names /\ \A q \in 1..(p - 1) : cols[q] \notin names]

\* the model's column names whose lower-cased form contains 'lat', and those
\* whose lower-cased form contains 'lon' or 'lng'
ContainsLat == {"lat", "Latitude", "relationship"}
ContainsLon == {"lon", "lng"}

\* table t has no 'geometry' column but a latitude-like and a longitude-like one
FromLatLon(t) ==
    /\ ~HasCol(t.cols, "geometry")
    /\ Range(t.cols) \cap ContainsLat # {}
    /\ Range(t.cols) \cap ContainsLon # {}

\* C13: right after geometry construction from latitude/longitude columns the
\* frame holds exactly the records whose first latitude-like and first
\* longitude-like column are both present, each with the point
\* (x = longitude, y = latitude) built from these two values, and the frame
\* is tagged EPSG:4326.
C13_GeometryFromLatLon ==
    (pc = "crs" /\ FromLatLon(dfs[i])) =>
        LET lat == FirstOf(dfs[i].cols, ContainsLat)
            lon == FirstOf(dfs[i].cols, ContainsLon)
        IN /\ gdf.geom /\ gdf.crs = "EPSG:4326"
           /\ RowIds(gdf) = {dfs[i].rows[p].idx : p \in
                               {q \in DOMAIN dfs[i].rows :
                                   /\ Cell(dfs[i], dfs[i].rows[q], lat) # NaN
                                   /\ Cell(dfs[i], dfs[i].rows[q], lon) # NaN}}
           /\ \A p \in DOMAIN gdf.rows :
                 LET g == Cell(gdf, gdf.rows[p], "geometry")
                     src == InputRow(i, gdf.rows[p].idx)
                 IN /\ g.k = "pt" /\ g.u = 10000
                    /\ g.x = Cell(dfs[i], src, lon).v
                    /\ g.y = Cell(dfs[i], src, lat).v

\* of two records with columns Latitude, relationship, lng, lon the one without
\* a Latitude is gone and the other got its point from Latitude and lng
C13_Witness ==
    /\ pc = "crs"
    /\ dfs[i].cols = <<"Latitude", "relationship", "lng", "lon">>
    /\ Len(dfs[i].rows) = 2 /\ Len(gdf.rows) = 1
    /\ dfs[i].rows[1].val = <<NaN, Num(407500), Num(-739800), Num(-739800)>>
    /\ dfs[i].rows[2].val = <<Num(407500), Num(415000), Num(-739800), Num(-739000)>>
    /\ Cell(gdf, gdf.rows[1], "geometry") = Pt(-739800, 407500)

\* ------------------------------------------------------------------- C14
\* the frame of table i as it entered CRS normalisation
BeforeCrs == ResolveGeometry(dfs[i]).t

\* the CRS stage has run for table i
AfterCrs == pc \in {"bbox", "time"} /\ BeforeCrs.geom

\* the frame that leaves the stage: declared, reprojected or kept
CrsOutcome ==
    IF BeforeCrs.crs = "none" THEN gdf.crs = crs_target /\ GeometryOf(gdf) \subseteq GeometryOf(BeforeCrs)
    ELSE IF BeforeCrs.crs = crs_target \/ ~ValidCrs(crs_target)
         THEN gdf.crs = BeforeCrs.crs /\ GeometryOf(gdf) \subseteq GeometryOf(BeforeCrs)
    ELSE /\ gdf.crs = crs_target
         /\ GeometryOf(gdf) \subseteq
               {Reproject(g, BeforeCrs.crs, crs_target) : g \in GeometryOf(BeforeCrs)}

\* C14: CRS normalisation never ends the call: a geometry-bearing table gets
\* past it whatever the target CRS is - an unset CRS declared as the target
\* with the coordinates as they were, a different CRS reprojected, a failed
\* reprojection leaving CRS and coordinates as they were.
C14_CrsRecoverable ==
    /\ (pc = "raised" /\ dfs # <<>> /\ BeforeCrs.geom) => err # "CRSError"
    /\ AfterCrs => CrsOutcome

\* ------------------------------------------------------------------- C15
\* C15: the frame object the caller passed to _clean_taxi_data holds, at every
\* point of the call and after it, the columns, values and records it was
\* passed with.
C15_InputNotMutated == tpc # "idle" => tin = targ

\* ------------------------------------------------------------------- C16
\* t declares the column 'geometry' as its geometry column
DeclaresGeometry(t) == t.geom /\ HasCol(t.cols, "geometry")

\* C16: whatever the call returns declares the geometry column 'geometry',
\* and a call on tables none of which has a geometry source does return - a
\* frame that declares it as well.
C16_OutputDeclaresGeometry ==
    /\ pc = "done" => DeclaresGeometry(merged)
    /\ (Ended /\ dfs # <<>> /\ \A p \in DOMAIN dfs : NoGeometrySource(dfs[p]))
          => pc = "done" /\ DeclaresGeometry(merged)

\* ------------------------------------------------------------------- C17
\* the column names every cleaned frame has, verbatim
SharedByAll == {c \in Range(cleaned_dfs[1].cols) : InAll(c)}

C18_DupSuffix ==
    [][(pc = "join" /\ pc' = "join" /\ k' = k + 1) =>
          LET right == cleaned_dfs[k]
              rpos == NonKeyPos(right, merge_cols)
          IN /\ Len(merged'.cols) = Len(merged.cols) + Len(rpos)
             /\ \A p \in DOMAIN merged.cols : merged'.cols[p] = merged.cols[p]
             /\ \A o \in DOMAIN rpos :
                   merged'.cols[Len(merged.cols) + o] =
                       IF right.cols[rpos[o]] \in Range(merged.cols)
                       THEN right.cols[rpos[o]] \o "_dup"
                       ELSE right.cols[rpos[o]]]_vars

\* three tables with a column 'fare' have been joined: the first table's is
\* 'fare', the second's and the third's are both 'fare_dup'
C18_Witness ==
    /\ pc = "join" /\ k = 4
    /\ \A q \in 1..3 : HasCol(cleaned_dfs[q].cols, "fare")
                        /\ ~HasCol(cleaned_dfs[q].cols, "fare_dup")
    /\ Cardinality({p \in DOMAIN merged.cols : merged.cols[p] = "fare"}) = 1
    /\ Cardinality({p \in DOMAIN merged.cols : merged.cols[p] = "fare_dup"}) = 2
    /\ Len(merged.rows) >= 1

\* ------------------------------------------------------------------- C19
\* the most records any cleaned frame has
MostRows == CHOOSE n \in 0..(MaxRows + 1) :
                /\ \A q \in DOMAIN cleaned_dfs : Len(cleaned_dfs[q].rows) <= n
                /\ n = 0 \/ \E q \in DOMAIN cleaned_dfs : Len(cleaned_dfs[q].rows) = n

\* one record of each of the first n cleaned frames, all agreeing with the
\* first frame's record on every key column
Combos(n) ==
    {f \in [1..n -> 1..MostRows] :
        /\ \A q \in 1..n : f[q] <= Len(cleaned_dfs[q].rows)
        /\ \A q \in 2..n : \A c \in Range(merge_cols) :
              Cell(cleaned_dfs[q], cleaned_dfs[q].rows[f[q]], c)
                  = Cell(cleaned_dfs[1], cleaned_dfs[1].rows[f[1]], c)}

\* the output record of a combination: the first frame's values, then the
\* non-key values of each later frame
RECURSIVE ComboRow(_, _)
ComboRow(f, n) ==
    IF n = 0 THEN <<>>
    ELSE ComboRow(f, n - 1) \o ContributedCells(n, cleaned_dfs[n].rows[f[n]])

\* C19: with a non-empty key set the frames are joined left to right by inner
\* join: after n frames the result holds exactly one record for every
\* combination of one record per frame that agree on all keys, and nothing
\* else; the key set and the branch do not change once the merge has begun.
C19_SequentialInnerJoin ==
    /\ [](Joined >= 1 =>
            /\ Len(merged.rows) = Cardinality(Combos(Joined))
            /\ \A f \in Combos(Joined) :
                  Cardinality({m \in DOMAIN merged.rows : merged.rows[m].val = ComboRow(f, Joined)})
                      = Cardinality({g \in Combos(Joined) :
                                        ComboRow(g, Joined) = ComboRow(f, Joined)}))
    /\ [][pc = "join" => merge_cols' = merge_cols /\ pc' \in {"join", "done", "raised"}]_vars

\* a frame with records at two places joined with a frame with two records
\* at one of them: two output records, none for the other place
C19_Witness ==
    /\ pc = "done"
    /\ merge_cols = <<"geometry">>
    /\ Len(cleaned_dfs) = 2
    /\ Len(cleaned_dfs[1].rows) = 2 /\ Len(cleaned_dfs[2].rows) = 2
    /\ GeometryOf(cleaned_dfs[1]) = {Pt(-739800, 407500), Pt(-742591, 404774)}
    /\ GeometryOf(cleaned_dfs[2]) = {Pt(-739800, 407500)}
    /\ Len(merged.rows) = 2
    /\ GeometryOf(merged) = {Pt(-739800, 407500)}

\* ------------------------------------------------------------------- C20
\* table t is already clean for target CRS c and time columns tc
AlreadyClean(t, c, tc) ==
    /\ DeclaresGeometry(t) /\ t.crs = c
    /\ \A g \in GeometryOf(t) : InNycDegrees(g)
    /\ AllUtc(t, Range(tc))

\* C20: a single-table call on an already clean table returns that table, and
\* a single-table call on the output of a single-table call does not raise
\* and returns that output unchanged: same columns, records, index labels,
\* geometry and CRS.
C20_RoundTrip ==
    /\ (pc = "done" /\ Len(dfs) = 1 /\ AlreadyClean(dfs[1], crs_target, time_cols))
          => merged = dfs[1]
    /\ round = 2 => pc # "raised"
    /\ (round = 2 /\ pc = "done") => merged = first_out

\* the second call returned the first call's output, which holds a record
\* with a UTC pickup time in a configured column
C20_Witness ==
    /\ round = 2 /\ pc = "done"
    /\ time_cols # <<>> /\ time_cols[1] = "pickup_datetime"
    /\ Len(merged.rows) >= 1
    /\ HasCol(merged.cols, "pickup_datetime")
    /\ Cell(merged, merged.rows[1], "pickup_datetime") = Aware(219600, 0)
    /\ merged = first_out

\* ------------------------------------------------------------------- C21
\* minutes to add to a New York wall-clock time of 2024 to get UTC: 240 from
\* 2024-03-10 03:00 to 2024-11-03 01:00 (daylight time), else 300
ToUtcFromNewYork(t) == IF t >= 99540 /\ t < 442140 THEN 240 ELSE 300

\* C21: in every cleaned frame a value of a configured time column that was
\* passed tz-naive is the New York wall-clock time it was passed as, moved to
\* UTC (08:00 of 1 June becomes 12:00Z), and a value that was passed tz-aware
\* is the same instant with offset 0.
C21_LocalToUtc ==
    \A q \in DOMAIN cleaned_dfs : \A p \in DOMAIN cleaned_dfs[q].rows :
        \A c \in Range(time_cols) :
            HasCol(dfs[q].cols, c) =>
                LET v == Cell(dfs[q], InputRow(q, cleaned_dfs[q].rows[p].idx), c)
                    w == Cell(cleaned_dfs[q], cleaned_dfs[q].rows[p], c)
                IN /\ v.k \in {"naive", "aware"}
                   /\ v.k = "naive" => w = Aware(v.t + ToUtcFromNewYork(v.t), 0)
                   /\ v.k = "aware" => w = Aware(v.t, 0)

\* the row lat 40.75, lon -73.98, pickup 2024-06-01 08:00 (tz-naive) came out
\* with the point (-73.98, 40.75) and pickup 2024-06-01T12:00Z
C21_Witness ==
    /\ pc = "done"
    /\ Len(dfs) = 1 /\ time_cols = <<"pickup_datetime">>
    /\ Len(dfs[1].rows) = 1 /\ Len(merged.rows) = 1
    /\ {"lat", "lon", "pickup_datetime"} \subseteq Range(dfs[1].cols)
    /\ Cell(dfs[1], dfs[1].rows[1], "lat") = Num(407500)
    /\ Cell(dfs[1], dfs[1].rows[1], "lon") = Num(-739800)
    /\ Cell(dfs[1], dfs[1].rows[1], "pickup_datetime") = Naive(219360)
    /\ Cell(merged, merged.rows[1], "geometry") = Pt(-739800, 407500)
    /\ Cell(merged, merged.rows[1], "pickup_datetime") = Aware(219600, 0)

\* ------------------------------------------------------------------- C22
\* record r of t has the values the taxi sanitizer lets through
TaxiSanitized(t, r) ==
    /\ HasCol(t.cols, "passenger_count") => InRange(Cell(t, r, "passenger_count"), 10, TRUE)
    /\ HasCol(t.cols, "trip_distance") => InRange(Cell(t, r, "trip_distance"), 10000, FALSE)
    /\ HasCol(t.cols, "fare_amount") => InRange(Cell(t, r, "fare_amount"), 100000, FALSE)

\* C22: the merge begins only when every table has been cleaned, and every
\* record that reaches the merge has been through its record sanitizer: a
\* taxi record in the merged output has passenger count, distance and fare
\* inside the sanitizer's ranges.
C22_SanitizedBeforeMerge ==
    Merging =>
        /\ Len(cleaned_dfs) = Len(dfs)
        /\ \A p \in DOMAIN merged.rows : TaxiSanitized(merged, merged.rows[p])

\* ------------------------------------------------------------------- C23
\* the calendar of 2024: the day of the year (0 = 1 January, a Monday) on
\* which each month ends, and the day names from Monday on
MonthEnd == <<30, 59, 90, 120, 151, 181, 212, 243, 273, 304, 334, 365>>
DayNames == <<"Monday", "Tuesday", "Wednesday", "Thursday", "Friday", "Saturday", "Sunday">>

MonthOfDay(d) == CHOOSE m \in 1..12 : d <= MonthEnd[m] /\ (m > 1 => d > MonthEnd[m - 1])

\* the sanitizer has derived the calendar fields
CalendarSettled == tpc \in {"speed", "zones", "done"}

\* hour, day name and month of every record are those of the pickup time it
\* was passed with
CalendarFromPickup ==
    \A p \in DOMAIN tdf.rows :
        LET r == tdf.rows[p]
            a == TaxiArgCell(r, "pickup_datetime")
            day == a.t \div 1440
        IN /\ Cell(tdf, r, "pickup_hour") = Num((a.t - day * 1440) \div 60)
           /\ Cell(tdf, r, "pickup_hour").v \in 0..23
           /\ Cell(tdf, r, "pickup_day") = Str(DayNames[(day % 7) + 1])
           /\ Cell(tdf, r, "pickup_month") = Num(MonthOfDay(day))

\* C23 (as claimed): pickup_weekday is the ISO weekday number of the pickup
\* time, 1 for Monday to 7 for Sunday.
C23_IsoWeekday ==
    CalendarSettled =>
        /\ CalendarFromPickup
        /\ \A p \in DOMAIN tdf.rows :
              Cell(tdf, tdf.rows[p], "pickup_weekday")
                  = Num(((TaxiArgCell(tdf.rows[p], "pickup_datetime").t \div 1440) % 7) + 1)

\* C23 (amended): pickup_hour, pickup_day and pickup_month are the hour
\* (0..23), day name and month (1..12) of the pickup time, and pickup_weekday
\* is its day of the week counted from Monday = 0 to Sunday = 6.
C23_CalendarFields ==
    CalendarSettled =>
        /\ CalendarFromPickup
        /\ \A p \in DOMAIN tdf.rows :
              LET w == Cell(tdf, tdf.rows[p], "pickup_weekday")
              IN /\ w = Num((TaxiArgCell(tdf.rows[p], "pickup_datetime").t \div 1440) % 7)
                 /\ DayNames[w.v + 1] = Cell(tdf, tdf.rows[p], "pickup_day").v

\* a trip that began on Sunday 2024-12-29 at 23:30 was returned with hour 23,
\* day 'Sunday', month 12 and weekday 6
C23_Witness ==
    /\ tpc = "done"
    /\ Len(tdf.rows) >= 1
    /\ Cell(tdf, tdf.rows[1], "pickup_datetime") = Naive(524130)
    /\ Cell(tdf, tdf.rows[1], "pickup_hour") = Num(23)
    /\ Cell(tdf, tdf.rows[1], "pickup_day") = Str("Sunday")
    /\ Cell(tdf, tdf.rows[1], "pickup_month") = Num(12)
    /\ Cell(tdf, tdf.rows[1], "pickup_weekday") = Num(6)

\* ------------------------------------------------------------------- C24
\* the names under which the three queries return the location identifiers
PickupIdNames == {"PULocationID", "PUlocationID"}
DropoffIdNames == {"DOLocationID", "DOlocationID"}

\* C24: a frame with pickup and dropoff location identifiers - under the
\* yellow/green names or under the FHV names - is returned with the columns
\* pickup_zone and dropoff_zone, each record holding its own identifiers.
C24_ZonesCopied ==
    (/\ tpc = "done" /\ targ.rows # <<>>
     /\ Range(targ.cols) \cap PickupIdNames # {}
     /\ Range(targ.cols) \cap DropoffIdNames # {})
    => /\ HasCol(tdf.cols, "pickup_zone") /\ HasCol(tdf.cols, "dropoff_zone")
       /\ \A p \in DOMAIN tdf.rows :
             /\ Cell(tdf, tdf.rows[p], "pickup_zone")
                    = TaxiArgCell(tdf.rows[p], FirstOf(targ.cols, PickupIdNames))
             /\ Cell(tdf, tdf.rows[p], "dropoff_zone")
                    = TaxiArgCell(tdf.rows[p], FirstOf(targ.cols, DropoffIdNames))

\* ------------------------------------------------------------------- C25
TaxiEnded == tpc \in {"done", "raised"}

\* C25: a taxi frame that lacks pickup_datetime or dropoff_datetime is still
\* returned, not raised on: the derivations that need the absent column are
\* skipped and the range checks have been applied to the records returned.
C25_MissingColumnSkipped ==
    (TaxiEnded /\ targ.rows # <<>> /\ ~BothTimestamps(targ)) =>
        /\ tpc = "done"
        /\ \A p \in DOMAIN tdf.rows : TaxiSanitized(tdf, tdf.rows[p])

\* ------------------------------------------------------------------- C26
BikeEnded == bpc \in {"done", "raised"}

\* the record of the bikeshare frame as passed that carries index label id
BikeArgRow(id) == barg.rows[id + 1]

\* the frame was passed with every column the bikeshare sanitizer reads
BikeComplete ==
    {"STATION_NAME", "CITY", "LATITUDE", "LONGITUDE", "YEAR"} \subseteq Range(barg.cols)

\* latitude in [40.5, 41.0] and longitude in [-74.3, -73.7], both numbers
BikeCoordinatesOk(r) ==
    /\ Cell(barg, r, "LATITUDE").k = "num" /\ Cell(barg, r, "LONGITUDE").k = "num"
    /\ Cell(barg, r, "LATITUDE").v >= 405000 /\ Cell(barg, r, "LATITUDE").v <= 410000
    /\ Cell(barg, r, "LONGITUDE").v >= -743000 /\ Cell(barg, r, "LONGITUDE").v <= -737000

\* C26: on a frame with all its columns, and a record with coordinates in
\* range, the bikeshare sanitizer returns, whatever the values: the records
\* returned are exactly those passed with numeric, in-range coordinates and
\* a numeric YEAR.
C26_MalformedRowExcluded ==
    (BikeEnded /\ BikeComplete /\ \E q \in DOMAIN barg.rows : BikeCoordinatesOk(barg.rows[q])) =>
        /\ bpc = "done"
        /\ RowIds(bdf) = {barg.rows[p].idx : p \in
                            {q \in DOMAIN barg.rows :
                                /\ BikeCoordinatesOk(barg.rows[q])
                                /\ Cell(barg, barg.rows[q], "YEAR").k = "num"}}

\* ------------------------------------------------------------------- C27
\* the coordinate filter has run
BoundsSettled == bpc \in {"date", "location", "year", "done"} /\ barg.rows # <<>>

\* C27: once the coordinate filter has run the frame holds exactly the
\* records passed with numeric LATITUDE in [40.5, 41.0] and LONGITUDE in
\* [-74.3, -73.7], bounds included, with these values; a returned record's
\* year_category is 'Recent' for YEAR >= 2020, 'Historical' for
\* 2015 <= YEAR < 2020 and 'Legacy' otherwise.
C27_BikeshareBounds ==
    /\ BoundsSettled =>
          /\ RowIds(bdf) = {barg.rows[p].idx : p \in
                              {q \in DOMAIN barg.rows : BikeCoordinatesOk(barg.rows[q])}}
          /\ \A p \in DOMAIN bdf.rows :
                /\ Cell(bdf, bdf.rows[p], "LATITUDE")
                       = Cell(barg, BikeArgRow(bdf.rows[p].idx), "LATITUDE")
                /\ Cell(bdf, bdf.rows[p], "LONGITUDE")
                       = Cell(barg, BikeArgRow(bdf.rows[p].idx), "LONGITUDE")
    /\ (bpc = "done" /\ barg.rows # <<>> /\ HasCol(barg.cols, "YEAR")) =>
          \A p \in DOMAIN bdf.rows :
             LET y == Cell(barg, BikeArgRow(bdf.rows[p].idx), "YEAR")
                 cat == Cell(bdf, bdf.rows[p], "year_category")
             IN /\ (y.k = "num" /\ y.v >= 2020) => cat = Str("Recent")
                /\ (y.k = "num" /\ y.v >= 2015 /\ y.v < 2020) => cat = Str("Historical")
                /\ (y.k # "num" \/ y.v < 2015) => cat = Str("Legacy")

\* a station at latitude 40.4999 is gone, a station of 2019 was returned as
\* 'Historical'
C27_Witness ==
    /\ bpc = "done"
    /\ BikeComplete
    /\ Len(barg.rows) = 2 /\ Len(bdf.rows) = 1
    /\ Cell(barg, barg.rows[1], "LATITUDE") = Num(404999)
    /\ Cell(barg, barg.rows[2], "YEAR") = Num(2019)
    /\ Cell(bdf, bdf.rows[1], "year_category") = Str("Historical")

\* ------------------------------------------------------------------- C28
\* the frames that have passed line 43 without raising
PastCrs == (IF pc \in {"bbox", "time"} THEN {gdf} ELSE {}) \cup Range(cleaned_dfs)

SourcesCleaned ==
    {flog[p].source : p \in {q \in DOMAIN flog : flog[q].rows >= 1 /\ flog[q].clean = "ok"}}

\* C29: the sources are attempted in the order yellow, green, fhv, and all
\* three are attempted whatever raised; a key once stored keeps its frame;
\* the mapping holds a key for a source exactly when its query returned at
\* least one row and its cleaning did not raise.
C29_FailuresIsolated ==
    /\ [](/\ \A p \in DOMAIN flog : flog[p].source = TaxiSources[p]
          /\ fpc = "done" => Len(flog) = Len(TaxiSources)
          /\ (fpc # "idle") => DOMAIN taxi_data = SourcesCleaned)
    /\ [][\A s \in DOMAIN taxi_data :
             s \in DOMAIN taxi_data' /\ taxi_data'[s] = taxi_data[s]]_vars

\* yellow was stored, the cleaning of green raised, fhv was stored
C29_Witness ==
    /\ fpc = "done"
    /\ Len(flog) = 3
    /\ flog[1].clean = "ok"
    /\ flog[2].clean = "raised"
    /\ DOMAIN taxi_data = {"yellow", "fhv"}
    /\ Len(taxi_data["fhv"].rows) = 1

\* ------------------------------------------------------------------- C30
\* the positions in the log of the tables whose query returned rows
Succeeded == {p \in DOMAIN slog : slog[p].outcome = "rows"}

\* C30: the tables are tried in the listed order; no table is tried after
\* one whose query returned rows, and a table without structure, with a
\* failing query or with no rows is followed by the next one; the function
\* returns the rows of the table that succeeded, or the empty table when
\* every candidate has been tried without success.
C30_FirstSuccessWins ==
    /\ \A p \in DOMAIN slog : slog[p].table = subway_tables[p]
    /\ \A p \in Succeeded : p = Len(slog)
    /\ spc = "done" =>
          IF Succeeded # {}
          THEN subway_df = slog[Len(slog)].df /\ subway_df.rows # <<>>
          ELSE subway_df = NoFrame /\ Len(slog) = Len(subway_tables)

\* the query of the first table raised, the second table's rows are returned
C30_Witness ==
    /\ spc = "done"
    /\ Len(slog) = 2
    /\ slog[1].outcome = "raised"
    /\ slog[2].outcome = "rows"
    /\ subway_df = slog[2].df
    /\ Len(subway_df.rows) = 2

====
